---------------------------- MODULE Spec2Model ----------------------------
(***************************************************************************)
(* A model of hsbc-data-cleaner: the section-level change-detection index  *)
(* (cleaning/deduplicate.py), the chunker (chunking/chunker.py) and the    *)
(* record emission of the orchestrator (orchestrator.py).                  *)
(*                                                                         *)
(* Conventions.                                                            *)
(*   - A Python str is a sequence of one-character strings, so "2025Q1"   *)
(*     is <<"2","0","2","5","Q","1">>.  Names that are only compared for   *)
(*     equality (fund ids, section names, statuses) stay TLA+ strings.     *)
(*   - Python None is the empty sequence None; every value that may be     *)
(*     None is a non-empty sequence otherwise.                             *)
(*   - A dict is a function; its keys are the function's DOMAIN.           *)
(*   - The section key f"{name}:{idx}" is the pair <<name, idx>>: idx is   *)
(*     the decimal text after the last colon, so the string determines the *)
(*     pair and the pair the string.                                       *)
(***************************************************************************)
EXTENDS Integers, Sequences, FiniteSets, TLC

VARIABLES
    store,        \* the persisted index file state/chunk_index.json
    pc,           \* run_cleaning's position for the current document
    last,         \* the latest evaluate_sections call: arguments, locals, outcome
    entries,      \* _emit_chunks' entries list for the current document
    storedBefore, \* history: every <<fund, key>> persisted before the latest call
    nCalls,       \* number of evaluate_sections calls made so far
    procs,        \* concurrent callers of evaluate_sections (SpecConc)
    overlapped,   \* history: some load_index ran while another call was in flight
    chunkIn,      \* arguments of the chunk_section_text call (SpecChunk)
    chunkOut,     \* its outcome
    page,         \* the _is_chinese_dominant call (SpecPage)
    seg,          \* the segmenter loop of parse_pdf_sections (SpecSeg)
    hold,         \* the line loop of extract_top_holdings_entries (SpecHold)
    registry,     \* the holdings registry files (SpecReg, SpecRun)
    run,          \* run_cleaning's arguments and locals for the current document (SpecRun)
    cleanDir      \* the cleaned-PDF directory: the pages of each file in it (SpecRun)

vars == <<store, pc, last, entries, storedBefore, nCalls, procs, overlapped,
          chunkIn, chunkOut, page, seg, hold, registry, run, cleanDir>>

\* the variables of the parsing stages and of the whole run
stageVars == <<page, seg, hold, registry, run, cleanDir>>

\* the variables of the change-detection index and of its callers
indexVars == <<store, pc, last, entries, storedBefore, nCalls, procs, overlapped,
               chunkIn, chunkOut>>

-----------------------------------------------------------------------------
(* Bounds and input domains *)

MaxCalls == 3

MaxTextLen == 5

MaxChunkSize == 3

Funds == {"F1", "F2"}

Q2024Q4 == <<"2", "0", "2", "4", "Q", "4">>

Q2025Q1 == <<"2", "0", "2", "5", "Q", "1">>

Q2025Q2 == <<"2", "0", "2", "5", "Q", "2">>

Quarters == {Q2024Q4, Q2025Q1, Q2025Q2}

\* PdfSection as evaluate_sections and _emit_chunks read it: name and the text property
Sec(name, text) == [name |-> name, text |-> text]

\* the documents of the runs, as the section lists parse_pdf_sections returns:
\* no section, one section, a first section with another (empty) text, another
\* name at the same position, two sections, and a recurring heading
SectionLists ==
    { <<>>,
      <<Sec("top_holdings", <<"a", "b">>)>>,
      <<Sec("top_holdings", <<>>), Sec("performance", <<"a", "b">>)>>,
      <<Sec("performance", <<"a", "b">>)>>,
      <<Sec("top_holdings", <<"a", "b">>), Sec("performance", <<"a", "b">>)>>,
      <<Sec("top_holdings", <<"a", "b">>), Sec("top_holdings", <<>>)>> }

-----------------------------------------------------------------------------
(* Python values *)

None == <<>>

EmptyDict == <<>>

DictSet(d, k, v) == [x \in (DOMAIN d) \cup {k} |-> IF x = k THEN v ELSE d[x]]

\* A character outside ASCII, the grave accent, and a control character other
\* than "\t", "\n", "\f" and "\r", is written by its code point, "U+4E2D".
\* the printable ASCII characters in code point order, from 32 on
AsciiPrintable ==
    <<" ", "!", "\"", "#", "$", "%", "&", "'", "(", ")", "*", "+", ",", "-", ".", "/",
      "0", "1", "2", "3", "4", "5", "6", "7", "8", "9", ":", ";", "<", "=", ">", "?",
      "@", "A", "B", "C", "D", "E", "F", "G", "H", "I", "J", "K", "L", "M", "N", "O",
      "P", "Q", "R", "S", "T", "U", "V", "W", "X", "Y", "Z", "[", "\\", "]", "^", "_",
      "U+0060", "a", "b", "c", "d", "e", "f", "g", "h", "i", "j", "k", "l", "m", "n", "o",
      "p", "q", "r", "s", "t", "u", "v", "w", "x", "y", "z", "{", "|", "}", "~">>

\* code points of the other characters the modelled texts use
OtherOrd(ch) ==
    CASE ch = "\t" -> 9
      [] ch = "\n" -> 10
      [] ch = "\f" -> 12
      [] ch = "\r" -> 13
      [] ch = "U+000B" -> 11
      [] ch = "U+001C" -> 28
      [] ch = "U+001D" -> 29
      [] ch = "U+001E" -> 30
      [] ch = "U+001F" -> 31
      [] ch = "U+0085" -> 133
      [] ch = "U+00A0" -> 160
      [] ch = "U+00E9" -> 233
      [] ch = "U+1680" -> 5760
      [] ch = "U+2000" -> 8192
      [] ch = "U+2001" -> 8193
      [] ch = "U+2002" -> 8194
      [] ch = "U+2003" -> 8195
      [] ch = "U+2004" -> 8196
      [] ch = "U+2005" -> 8197
      [] ch = "U+2006" -> 8198
      [] ch = "U+2007" -> 8199
      [] ch = "U+2008" -> 8200
      [] ch = "U+2009" -> 8201
      [] ch = "U+200A" -> 8202
      [] ch = "U+2028" -> 8232
      [] ch = "U+2029" -> 8233
      [] ch = "U+202F" -> 8239
      [] ch = "U+205F" -> 8287
      [] ch = "U+3000" -> 12288
      [] ch = "U+3001" -> 12289
      [] ch = "U+3002" -> 12290
      [] ch = "U+4E2D" -> 20013
      [] ch = "U+4E8B" -> 20107
      [] ch = "U+4ED3" -> 20179
      [] ch = "U+4ED6" -> 20182
      [] ch = "U+4F48" -> 20296
      [] ch = "U+5009" -> 20489
      [] ch = "U+5011" -> 20497
      [] ch = "U+503A" -> 20538
      [] ch = "U+50B5" -> 20661
      [] ch = "U+5171" -> 20849
      [] ch = "U+5176" -> 20854
      [] ch = "U+5206" -> 20998
      [] ch = "U+5225" -> 21029
      [] ch = "U+5238" -> 21048
      [] ch = "U+5341" -> 21313
      [] ch = "U+53CA" -> 21450
      [] ch = "U+5408" -> 21512
      [] ch = "U+544A" -> 21578
      [] ch = "U+54C1" -> 21697
      [] ch = "U+56DE" -> 22238
      [] ch = "U+56FA" -> 22266
      [] ch = "U+5831" -> 22577
      [] ch = "U+5927" -> 22823
      [] ch = "U+5B9A" -> 23450
      [] ch = "U+5E03" -> 24067
      [] ch = "U+5E74" -> 24180
      [] ch = "U+5EA6" -> 24230
      [] ch = "U+5F59" -> 24409
      [] ch = "U+6211" -> 25105
      [] ch = "U+6295" -> 25237
      [] ch = "U+6301" -> 25345
      [] ch = "U+6383" -> 25475
      [] ch = "U+63CF" -> 25551
      [] ch = "U+652F" -> 25903
      [] ch = "U+6536" -> 25910
      [] ch = "U+6599" -> 26009
      [] ch = "U+6708" -> 26376
      [] ch = "U+6709" -> 26377
      [] ch = "U+67E5" -> 26597
      [] ch = "U+696D" -> 26989
      [] ch = "U+6982" -> 27010
      [] ch = "U+6A19" -> 27161
      [] ch = "U+6CE8" -> 27880
      [] ch = "U+6ED9" -> 28377
      [] ch = "U+7279" -> 29305
      [] ch = "U+7522" -> 29986
      [] ch = "U+7528" -> 29992
      [] ch = "U+7565" -> 30053
      [] ch = "U+76CA" -> 30410
      [] ch = "U+76EE" -> 30446
      [] ch = "U+7968" -> 31080
      [] ch = "U+7A4D" -> 31309
      [] ch = "U+7B56" -> 31574
      [] ch = "U+7D2F" -> 32047
      [] ch = "U+7D44" -> 32068
      [] ch = "U+80A1" -> 32929
      [] ch = "U+884C" -> 34892
      [] ch = "U+8981" -> 35201
      [] ch = "U+8A0A" -> 35338
      [] ch = "U+8A5E" -> 35422
      [] ch = "U+8ACB" -> 35531
      [] ch = "U+8C50" -> 35920
      [] ch = "U+8CBB" -> 36027
      [] ch = "U+8CC7" -> 36039
      [] ch = "U+91CD" -> 37325
      [] ch = "U+958B" -> 38283
      [] ch = "U+95B1" -> 38321
      [] ch = "U+95DC" -> 38364
      [] ch = "U+96C6" -> 38598
      [] ch = "U+9805" -> 38917
      [] ch = "U+985E" -> 39006
      [] ch = "U+9A30" -> 39472
      [] ch = "U+9EDE" -> 40670
      [] ch = "U+FF01" -> 65281
      [] ch = "U+FF05" -> 65285
      [] ch = "U+FF08" -> 65288
      [] ch = "U+FF09" -> 65289
      [] ch = "U+FF0C" -> 65292
      [] ch = "U+FF1A" -> 65306
      [] ch = "U+FF1B" -> 65307
      [] ch = "U+FF1F" -> 65311

\* the code point of each character of a list that starts at code point 32
ord_table(chars) ==
    [ch \in {chars[i] : i \in 1..Len(chars)} |->
        31 + (CHOOSE i \in 1..Len(chars) : chars[i] = ch)]

\* the code point of each printable ASCII character
AsciiOrd == ord_table(AsciiPrintable)

\* for each capital of the list, at the places 34 to 59, the character 32
\* places on
lower_table(chars) ==
    [ch \in {chars[i] : i \in 34..59} |-> chars[(CHOOSE i \in 34..59 : chars[i] = ch) + 32]]

\* the lower-case form of each ASCII capital: the character 32 code points on
AsciiLower == lower_table(AsciiPrintable)

\* the entry of a character in a table, a default for a character without one
lookup(table, ch, default) == IF ch \in DOMAIN table THEN table[ch] ELSE default

code_between(code, low, high) == low <= code /\ code <= high

\* ord(ch)
Ord(ch) ==
    CASE ch = " " -> 32
      [] ch = "-" -> 45
      [] ch = "0" -> 48
      [] ch = "1" -> 49
      [] ch = "2" -> 50
      [] ch = "3" -> 51
      [] ch = "4" -> 52
      [] ch = "5" -> 53
      [] ch = "6" -> 54
      [] ch = "7" -> 55
      [] ch = "8" -> 56
      [] ch = "9" -> 57
      [] ch = "Q" -> 81
      [] ch = "q" -> 113
      [] OTHER -> lookup(AsciiOrd, ch, OtherOrd(ch))

\* the ASCII control characters the modelled texts use
AsciiControl ==
    {"\t", "\n", "U+000B", "\f", "\r", "U+001C", "U+001D", "U+001E", "U+001F"}

\* ch.isascii()
isascii(ch) == lookup(AsciiOrd, ch, 0) # 0 \/ ch \in AsciiControl

\* ch.isalpha() for an ASCII character: code points 65-90 and 97-122
is_alpha_code(code) == code_between(code, 65, 90) \/ code_between(code, 97, 122)

IsAsciiAlpha(ch) == is_alpha_code(lookup(AsciiOrd, ch, 0))

\* the class [0-9]
IsDigit(ch) == code_between(lookup(AsciiOrd, ch, 0), 48, 57)

\* ch.lower(): the ASCII capitals map to code point + 32, the other modelled
\* characters have no lower-case form
LowerChar(ch) == lookup(AsciiLower, ch, ch)

\* s.lower()
lower(s) == [i \in 1..Len(s) |-> LowerChar(s[i])]

\* Python's str < str: lexicographic by code point, a proper prefix is smaller
RECURSIVE StrLess(_, _)
StrLess(a, b) ==
    IF b = <<>> THEN FALSE
    ELSE IF a = <<>> THEN TRUE
    ELSE IF Ord(Head(a)) # Ord(Head(b)) THEN Ord(Head(a)) < Ord(Head(b))
    ELSE StrLess(Tail(a), Tail(b))

\* sorted(available)[-1]
SortedLast(available) ==
    CHOOSE q \in available : \A r \in available : r = q \/ StrLess(r, q)

-----------------------------------------------------------------------------
(* cleaning/deduplicate.py *)

\* hashlib.sha256(text.encode("utf-8")).hexdigest(): a digest is never None and
\* distinct texts have distinct digests (SHA-256 taken as collision free)
compute_hash(text) == <<"sha256:">> \o text

MissingStore == [state |-> "missing", index |-> EmptyDict]

MalformedStore == [state |-> "malformed", index |-> EmptyDict]

\* mutant: the parse error is swallowed and an empty index returned
load_index_swallowing(file) ==
    IF file.state = "ok" THEN [raised |-> FALSE, index |-> file.index]
    ELSE [raised |-> FALSE, index |-> EmptyDict]

\* the file as open(path, "w") leaves it until the dump is written: it exists
\* and is empty, which json.load rejects
TruncatedStore == [state |-> "truncated", index |-> EmptyDict]

\* returns {} for a missing file, raises from json.load on a malformed one
load_index(file) ==
    IF file.state = "missing" THEN [raised |-> FALSE, index |-> EmptyDict]
    ELSE IF file.state \in {"malformed", "truncated"}
    THEN [raised |-> TRUE, index |-> EmptyDict]
    ELSE [raised |-> FALSE, index |-> file.index]

\* rewrites the whole file with the index it is given
save_index(data) == [state |-> "ok", index |-> data]

\* mutant: the fund's entry is made empty even when the index holds one
setdefault_resets(index, fund_id) == DictSet(index, fund_id, EmptyDict)

\* index.setdefault(fund_id, {})
setdefault(index, fund_id) ==
    IF fund_id \in DOMAIN index THEN index ELSE DictSet(index, fund_id, EmptyDict)

_find_previous_quarter(fund_entry, quarter) ==
    LET available == (DOMAIN fund_entry) \ {quarter}
    IN  IF available = {} THEN [quarter |-> None, map |-> [present |-> FALSE, map |-> EmptyDict]]
        ELSE LET prev_quarter == SortedLast(available)
             IN  [quarter |-> prev_quarter,
                  map |-> [present |-> TRUE, map |-> fund_entry[prev_quarter]]]

\* fund_entry.get(quarter)
dict_get(d, k) ==
    IF k \in DOMAIN d THEN [present |-> TRUE, map |-> d[k]]
    ELSE [present |-> FALSE, map |-> EmptyDict]

section_key(name, idx) == <<name, idx>>

\* mutant: the two outcomes of the comparison are swapped
compare_hash_inverted(previous_hash, current_hash) ==
    IF previous_hash = current_hash THEN "updated" ELSE "reuse"

compare_hash(previous_hash, current_hash) ==
    IF previous_hash = current_hash THEN "reuse" ELSE "updated"

\* mutant: a key found nowhere is reported "updated" rather than "new"
section_result_default_updated(existing_current_map, previous_map, section, idx) ==
    LET key == section_key(section.name, idx)
        current_hash == compute_hash(section.text)
        base == [key |-> key, name |-> section.name, current_hash |-> current_hash]
    IN  IF existing_current_map.present /\ key \in DOMAIN existing_current_map.map
        THEN LET previous_hash == existing_current_map.map[key].hash
             IN  base @@ [status |-> compare_hash(previous_hash, current_hash),
                          previous_hash |-> previous_hash]
        ELSE IF previous_map.present /\ key \in DOMAIN previous_map.map
        THEN LET previous_hash == previous_map.map[key].hash
             IN  base @@ [status |-> compare_hash(previous_hash, current_hash),
                          previous_hash |-> previous_hash]
        ELSE base @@ [status |-> "updated", previous_hash |-> None]

\* mutant: the other quarter is consulted before the same quarter
section_result_previous_first(existing_current_map, previous_map, section, idx) ==
    LET key == section_key(section.name, idx)
        current_hash == compute_hash(section.text)
        base == [key |-> key, name |-> section.name, current_hash |-> current_hash]
    IN  IF previous_map.present /\ key \in DOMAIN previous_map.map
        THEN LET previous_hash == previous_map.map[key].hash
             IN  base @@ [status |-> compare_hash(previous_hash, current_hash),
                          previous_hash |-> previous_hash]
        ELSE IF existing_current_map.present /\ key \in DOMAIN existing_current_map.map
        THEN LET previous_hash == existing_current_map.map[key].hash
             IN  base @@ [status |-> compare_hash(previous_hash, current_hash),
                          previous_hash |-> previous_hash]
        ELSE base @@ [status |-> "new", previous_hash |-> None]

\* one pass of the loop body, lines 59-89; idx is 0-based
section_result(existing_current_map, previous_map, section, idx) ==
    LET key == section_key(section.name, idx)
        current_hash == compute_hash(section.text)
        base == [key |-> key, name |-> section.name, current_hash |-> current_hash]
    IN  IF existing_current_map.present /\ key \in DOMAIN existing_current_map.map
        THEN LET previous_hash == existing_current_map.map[key].hash
             IN  base @@ [status |-> compare_hash(previous_hash, current_hash),
                          previous_hash |-> previous_hash]
        ELSE IF previous_map.present /\ key \in DOMAIN previous_map.map
        THEN LET previous_hash == previous_map.map[key].hash
             IN  base @@ [status |-> compare_hash(previous_hash, current_hash),
                          previous_hash |-> previous_hash]
        ELSE base @@ [status |-> "new", previous_hash |-> None]

\* mutant: the last section is left out of the stored map
new_current_map_drops_last(sections) ==
    [key \in {section_key(sections[i].name, i - 1) : i \in 1..(Len(sections) - 1)} |->
        [hash |-> compute_hash(sections[key[2] + 1].text),
         section |-> key[1]]]

\* the dict the loop builds at line 80
new_current_map(sections) ==
    [key \in {section_key(sections[i].name, i - 1) : i \in 1..Len(sections)} |->
        [hash |-> compute_hash(sections[key[2] + 1].text),
         section |-> key[1]]]

\* mutant: the new map is merged into the quarter's stored map
assign_quarter_merging(fund_entry, quarter, sections) ==
    LET old == IF quarter \in DOMAIN fund_entry THEN fund_entry[quarter] ELSE EmptyDict
        new == new_current_map(sections)
    IN  DictSet(fund_entry, quarter,
                [k \in (DOMAIN old) \cup (DOMAIN new) |->
                    IF k \in DOMAIN new THEN new[k] ELSE old[k]])

\* mutant: the fund's entry is rebuilt with the target quarter alone
assign_quarter_alone(fund_entry, quarter, sections) ==
    [q \in {quarter} |-> new_current_map(sections)]

\* fund_entry[quarter] = new_current_map, line 91
assign_quarter(fund_entry, quarter, sections) ==
    DictSet(fund_entry, quarter, new_current_map(sections))

\* lines 50-91: what the call computes from the index it loaded
evaluate_loaded(loaded_index, fund_id, quarter, sections) ==
    LET index == setdefault(loaded_index, fund_id)
        fund_entry == index[fund_id]
        existing_current_map == dict_get(fund_entry, quarter)
        previous == _find_previous_quarter(fund_entry, quarter)
        results == [i \in 1..Len(sections) |->
                       section_result(existing_current_map, previous.map,
                                      sections[i], i - 1)]
    IN  [results |-> results,
         \* fund_entry is index[fund_id] itself: the assignment changes index
         index |-> DictSet(index, fund_id, assign_quarter(fund_entry, quarter, sections)),
         existing_current_map |-> existing_current_map,
         previous_quarter |-> previous.quarter]

\* mutant: the results are returned and the index file is left as it was
evaluate_sections_unsaved(file, fund_id, quarter, sections) ==
    LET loaded == load_index(file)
    IN  IF loaded.raised
        THEN [raised |-> TRUE, results |-> <<>>, file |-> file,
              existing_current_map |-> [present |-> FALSE, map |-> EmptyDict],
              previous_quarter |-> None]
        ELSE LET r == evaluate_loaded(loaded.index, fund_id, quarter, sections)
             IN  [raised |-> FALSE, results |-> r.results,
                  file |-> file,
                  existing_current_map |-> r.existing_current_map,
                  previous_quarter |-> r.previous_quarter]

evaluate_sections(file, fund_id, quarter, sections) ==
    LET loaded == load_index(file)
    IN  IF loaded.raised
        THEN [raised |-> TRUE, results |-> <<>>, file |-> file,
              existing_current_map |-> [present |-> FALSE, map |-> EmptyDict],
              previous_quarter |-> None]
        ELSE LET r == evaluate_loaded(loaded.index, fund_id, quarter, sections)
             IN  [raised |-> FALSE, results |-> r.results,
                  file |-> save_index(r.index),
                  existing_current_map |-> r.existing_current_map,
                  previous_quarter |-> r.previous_quarter]

-----------------------------------------------------------------------------
(* chunking/chunker.py *)

\* the characters str.isspace, str.strip, str.split and the class \s of re
\* take for whitespace: the ASCII ones, NEL, the no-break space and the
\* Unicode separators
Whitespace ==
    {" ", "\t", "\n", "U+000B", "\f", "\r", "U+001C", "U+001D", "U+001E", "U+001F",
     "U+0085", "U+00A0", "U+1680", "U+2000", "U+2001", "U+2002", "U+2003", "U+2004",
     "U+2005", "U+2006", "U+2007", "U+2008", "U+2009", "U+200A", "U+2028", "U+2029",
     "U+202F", "U+205F", "U+3000"}

\* ch.isspace()
IsSpace(ch) == ch \in Whitespace

RECURSIVE LStrip(_)
LStrip(s) == IF s # <<>> /\ IsSpace(Head(s)) THEN LStrip(Tail(s)) ELSE s

RECURSIVE RStrip(_)
RStrip(s) ==
    IF s # <<>> /\ IsSpace(s[Len(s)]) THEN RStrip(SubSeq(s, 1, Len(s) - 1)) ELSE s

\* str.strip()
Strip(s) == RStrip(LStrip(s))

Min(a, b) == IF a <= b THEN a ELSE b

\* tokens[start:end] for 0 <= start <= end <= len(tokens)
Slice(tokens, start, end) == SubSeq(tokens, start + 1, end)

\* the while loop of lines 42-56, from the state (start, index) on
RECURSIVE chunk_loop(_, _, _, _, _, _)
chunk_loop(section_name, tokens, chunk_size, step, start, index) ==
    IF ~(start < Len(tokens)) THEN <<>>
    ELSE LET end == Min(start + chunk_size, Len(tokens))
             chunk_text == Strip(Slice(tokens, start, end))
         IN  IF chunk_text # <<>>
             THEN <<[section |-> section_name, index |-> index, text |-> chunk_text,
                     start_offset |-> start, end_offset |-> end]>>
                  \o chunk_loop(section_name, tokens, chunk_size, step, start + step, index + 1)
             ELSE chunk_loop(section_name, tokens, chunk_size, step, start + step, index)

\* mutant: the stride adds the overlap to the width
chunk_section_text_wrong_step(section_name, text, chunk_size, overlap) ==
    IF chunk_size <= 0 THEN [raised |-> TRUE, chunks |-> <<>>]
    ELSE IF overlap < 0 \/ overlap >= chunk_size THEN [raised |-> TRUE, chunks |-> <<>>]
    ELSE LET clean_text == Strip(text)
         IN  IF clean_text = <<>> THEN [raised |-> FALSE, chunks |-> <<>>]
             ELSE [raised |-> FALSE,
                   chunks |-> chunk_loop(section_name, clean_text, chunk_size,
                                         chunk_size + overlap, 0, 0)]

chunk_section_text(section_name, text, chunk_size, overlap) ==
    IF chunk_size <= 0 THEN [raised |-> TRUE, chunks |-> <<>>]
    ELSE IF overlap < 0 \/ overlap >= chunk_size THEN [raised |-> TRUE, chunks |-> <<>>]
    ELSE LET clean_text == Strip(text)
         IN  IF clean_text = <<>> THEN [raised |-> FALSE, chunks |-> <<>>]
             ELSE [raised |-> FALSE,
                   chunks |-> chunk_loop(section_name, clean_text, chunk_size,
                                         chunk_size - overlap, 0, 0)]

\* mutant: a reused section gets a sentence too
generate_change_summary_always(section_name, status, previous_hash, current_hash) ==
    IF status = "new"
    THEN <<"Section ", section_name, " is new in this quarter.">>
    ELSE <<"Section ", section_name, " changed (prev_hash=">> \o previous_hash
         \o <<", new_hash=">> \o current_hash \o <<").">>

\* the returned sentence as the pieces its f-string joins; None for reuse
generate_change_summary(section_name, status, previous_hash, current_hash) ==
    IF status = "reuse" THEN None
    ELSE IF status = "new"
    THEN <<"Section ", section_name, " is new in this quarter.">>
    ELSE IF status = "updated"
    THEN <<"Section ", section_name, " changed (prev_hash=">> \o previous_hash
         \o <<", new_hash=">> \o current_hash \o <<").">>
    ELSE None

-----------------------------------------------------------------------------
(* orchestrator.py *)

EmitChunkSize == 600

EmitOverlap == 80

\* {result.key: result for result in dedupe_results}: a later result wins
status_map_of(dedupe_results) ==
    [key \in {dedupe_results[i].key : i \in 1..Len(dedupe_results)} |->
        dedupe_results[CHOOSE i \in 1..Len(dedupe_results) :
            /\ dedupe_results[i].key = key
            /\ \A j \in 1..Len(dedupe_results) : dedupe_results[j].key = key => j <= i]]

\* the entries one section contributes, lines 184-246; idx is 0-based
section_entries(status_map, section, idx, quarter, fund_code) ==
    LET key == section_key(section.name, idx)
        has_result == key \in DOMAIN status_map
        summary == IF has_result
                   THEN generate_change_summary(section.name, status_map[key].status,
                                                status_map[key].previous_hash,
                                                status_map[key].current_hash)
                   ELSE None
        base == [fund_code |-> fund_code, section |-> section.name, quarter |-> quarter,
                 previous_chunk_hash |-> IF has_result THEN status_map[key].previous_hash ELSE None,
                 section_hash |-> IF has_result THEN status_map[key].current_hash ELSE None,
                 change_type |-> IF has_result THEN status_map[key].status ELSE "unknown",
                 section_idx |-> idx]
        chunks == chunk_section_text(section.name, section.text, EmitChunkSize, EmitOverlap).chunks
        summary_entries ==
            IF summary # None
            THEN <<base @@ [type |-> "summary", text |-> summary, chunk_index |-> None,
                            chunk_hash |-> compute_hash(summary),
                            start_offset |-> None, end_offset |-> None]>>
            ELSE <<>>
        chunk_entries ==
            [c \in 1..Len(chunks) |->
                base @@ [type |-> "chunk", text |-> chunks[c].text,
                         chunk_index |-> <<chunks[c].index>>,
                         chunk_hash |-> compute_hash(chunks[c].text),
                         start_offset |-> <<chunks[c].start_offset>>,
                         end_offset |-> <<chunks[c].end_offset>>]]
    IN  summary_entries \o chunk_entries

\* the loop over enumerate(sections), from position i (1-based) on
RECURSIVE emit_loop(_, _, _, _, _)
emit_loop(status_map, sections, i, quarter, fund_code) ==
    IF i > Len(sections) THEN <<>>
    ELSE section_entries(status_map, sections[i], i - 1, quarter, fund_code)
         \o emit_loop(status_map, sections, i + 1, quarter, fund_code)

\* the list json.dump writes to the document's output file
_emit_chunks(sections, dedupe_results, quarter, fund_code) ==
    emit_loop(status_map_of(dedupe_results), sections, 1, quarter, fund_code)

-----------------------------------------------------------------------------
(* The sequential pipeline: run_cleaning handles one document at a time,   *)
(* calling evaluate_sections and then _emit_chunks.                        *)

NoCall ==
    [fund_id |-> "", quarter |-> None, sections |-> <<>>, outcome |-> "none",
     results |-> <<>>, before |-> "none",
     existing_current_map |-> [present |-> FALSE, map |-> EmptyDict],
     previous_quarter |-> None, rerun |-> FALSE]

NoChunkCall == [text |-> <<>>, chunk_size |-> 0, overlap |-> 0]

NoChunkResult == [state |-> "none", chunks |-> <<>>]

NoProcs == <<>>

Procs == {1, 2}

IdleProc ==
    [pc |-> "idle", fund_id |-> "", quarter |-> None, sections |-> <<>>,
     index |-> EmptyDict, results |-> <<>>]

\* no call of a parsing stage and no run is in progress; no file is written yet
NoPage == [state |-> "none"]

NoSeg == [state |-> "none"]

NoHold == [state |-> "none"]

NoRegistry == [state |-> "none"]

NoRun == [pc |-> "none"]

NoCleanDir == <<>>

StagesIdle ==
    /\ page = NoPage
    /\ seg = NoSeg
    /\ hold = NoHold
    /\ registry = NoRegistry
    /\ run = NoRun
    /\ cleanDir = NoCleanDir

\* every <<fund, key>> the index holds
KeysOf(file) ==
    UNION {UNION {{<<f, k>> : k \in DOMAIN file.index[f][q]} : q \in DOMAIN file.index[f]}
           : f \in DOMAIN file.index}

Init ==
    /\ store \in {MissingStore, MalformedStore}
    /\ pc = "idle"
    /\ last = NoCall
    /\ entries = <<>>
    /\ storedBefore = {}
    /\ nCalls = 0
    /\ procs = NoProcs
    /\ overlapped = FALSE
    /\ chunkIn = NoChunkCall
    /\ chunkOut = NoChunkResult
    /\ StagesIdle

\* run_cleaning lines 97-104: evaluate_sections for the next document
Evaluate(fund_id, quarter, sections) ==
    /\ pc = "idle"
    /\ nCalls < MaxCalls
    /\ LET r == evaluate_sections(store, fund_id, quarter, sections)
       IN  /\ store' = r.file
           /\ last' = [fund_id |-> fund_id, quarter |-> quarter, sections |-> sections,
                       outcome |-> IF r.raised THEN "raised" ELSE "returned",
                       results |-> r.results,
                       before |-> store.state,
                       existing_current_map |-> r.existing_current_map,
                       previous_quarter |-> r.previous_quarter,
                       rerun |-> /\ last.outcome = "returned"
                                 /\ last.fund_id = fund_id
                                 /\ last.quarter = quarter
                                 /\ last.sections = sections]
           /\ pc' = IF r.raised THEN "failed" ELSE "evaluated"
           /\ storedBefore' = storedBefore \cup KeysOf(store)
    /\ entries' = <<>>
    /\ nCalls' = nCalls + 1
    /\ UNCHANGED <<procs, overlapped, chunkIn, chunkOut, stageVars>>

\* run_cleaning lines 111-120: _emit_chunks writes the document's records
EmitChunks ==
    /\ pc = "evaluated"
    /\ entries' = _emit_chunks(last.sections, last.results, last.quarter, last.fund_id)
    /\ pc' = "idle"
    /\ UNCHANGED <<store, last, storedBefore, nCalls, procs, overlapped, chunkIn, chunkOut,
                   stageVars>>

\* the exception of a failed run reaches the caller; a later run starts afresh
Restart ==
    /\ pc = "failed"
    /\ pc' = "idle"
    /\ UNCHANGED <<store, last, entries, storedBefore, nCalls, procs, overlapped,
                   chunkIn, chunkOut, stageVars>>

Next ==
    \/ \E f \in Funds, q \in Quarters, s \in SectionLists : Evaluate(f, q, s)
    \/ EmitChunks
    \/ Restart

Spec == Init /\ [][Next]_vars

-----------------------------------------------------------------------------
(* Properties of the change-detection index, checked under Spec *)

Returned == last.outcome = "returned"

ResultIdx == 1..Len(last.results)

\* the fund's maps the latest call left alone: the quarters other than its target
OtherQuarters == (DOMAIN store.index[last.fund_id]) \ {last.quarter}

InSameQuarter(key) ==
    last.existing_current_map.present /\ key \in DOMAIN last.existing_current_map.map

\* C1: a second evaluation of the same section list for the same fund and
\* quarter, directly after the first, reports every section as "reuse" with
\* previous_hash equal to current_hash.
C1_RerunReportsReuse ==
    (Returned /\ last.rerun) =>
        /\ Len(last.results) = Len(last.sections)
        /\ \A i \in ResultIdx :
              /\ last.results[i].status = "reuse"
              /\ last.results[i].previous_hash = last.results[i].current_hash
              /\ last.results[i].current_hash = compute_hash(last.sections[i].text)

C1_Witness ==
    /\ Returned /\ last.rerun /\ nCalls = 3
    /\ Len(last.results) = 2
    /\ OtherQuarters # {}

\* C2: when the fund holds exactly one stored quarter q1 and a later quarter
\* is evaluated for the first time, every key that q1 holds with another text's
\* hash is reported "updated" with previous_hash the hash stored under q1 and
\* current_hash the hash of the new text.
C2_CrossQuarterUpdated ==
    (Returned /\ ~last.existing_current_map.present) =>
        \A q1 \in Quarters :
            (OtherQuarters = {q1} /\ StrLess(q1, last.quarter)) =>
                \A i \in ResultIdx :
                    LET r == last.results[i]
                        old == store.index[last.fund_id][q1]
                    IN  (r.key \in DOMAIN old /\ old[r.key].hash # compute_hash(last.sections[i].text))
                        => /\ r.status = "updated"
                           /\ r.previous_hash = old[r.key].hash
                           /\ r.current_hash = compute_hash(last.sections[i].text)

C2_Witness ==
    /\ Returned /\ ~last.existing_current_map.present
    /\ OtherQuarters = {Q2025Q1} /\ last.quarter = Q2025Q2
    /\ \E i \in ResultIdx :
          /\ last.results[i].status = "updated"
          /\ last.results[i].previous_hash = compute_hash(<<"a", "b">>)
          /\ last.results[i].current_hash = compute_hash(<<>>)

\* C3: a section whose key no earlier save has persisted for the fund, in any
\* quarter, is reported "new" with previous_hash None.
C3_NeverStoredIsNew ==
    Returned =>
        \A i \in ResultIdx :
            <<last.fund_id, last.results[i].key>> \notin storedBefore =>
                /\ last.results[i].status = "new"
                /\ last.results[i].previous_hash = None

C3_Witness ==
    /\ Returned /\ last.before = "ok"
    /\ \E i \in ResultIdx : <<last.fund_id, last.results[i].key>> \notin storedBefore
    /\ \E k \in storedBefore : k[1] = last.fund_id
    /\ \E k \in storedBefore : k[1] # last.fund_id

\* the latest of the quarters that precede the target, None when none does
LatestPreceding(stored, quarter) ==
    LET prior == {q \in stored : StrLess(q, quarter)}
    IN  IF prior = {} THEN None ELSE SortedLast(prior)

\* C4: for a key the target quarter does not hold, the comparison base is the
\* latest stored quarter of the fund that precedes the target quarter, never a
\* later one.
C4_BaseIsLatestPrecedingQuarter ==
    Returned =>
        \A i \in ResultIdx :
            LET r == last.results[i]
                base == LatestPreceding(OtherQuarters, last.quarter)
                prior == IF base = None THEN EmptyDict
                         ELSE store.index[last.fund_id][base]
            IN  ~InSameQuarter(r.key) =>
                    IF r.key \in DOMAIN prior
                    THEN /\ r.previous_hash = prior[r.key].hash
                         /\ r.status = IF r.previous_hash = r.current_hash
                                       THEN "reuse" ELSE "updated"
                    ELSE /\ r.previous_hash = None
                         /\ r.status = "new"

\* C5: a key the same (fund, quarter) already holds is compared with that
\* entry only; another quarter's entry is used only for a key the same quarter
\* lacks.
C5_SameQuarterFirst ==
    Returned =>
        \A i \in ResultIdx :
            LET r == last.results[i]
                other == IF last.previous_quarter = None THEN EmptyDict
                         ELSE store.index[last.fund_id][last.previous_quarter]
            IN  /\ InSameQuarter(r.key) =>
                      /\ r.previous_hash = last.existing_current_map.map[r.key].hash
                      /\ r.status = IF r.previous_hash = r.current_hash
                                    THEN "reuse" ELSE "updated"
                /\ (~InSameQuarter(r.key) /\ r.key \in DOMAIN other) =>
                      /\ r.previous_hash = other[r.key].hash
                      /\ r.status = IF r.previous_hash = r.current_hash
                                    THEN "reuse" ELSE "updated"

C5_Witness ==
    /\ Returned /\ last.previous_quarter # None
    /\ \E i \in ResultIdx :
          LET r == last.results[i]
              other == store.index[last.fund_id][last.previous_quarter]
          IN  /\ InSameQuarter(r.key)
              /\ r.key \in DOMAIN other
              /\ other[r.key].hash = r.current_hash
              /\ r.status = "updated"

\* C6: after a successful evaluation the persisted map of (fund, quarter) holds
\* exactly the keys of the evaluated sections, each with the hash of its text
\* and its name; nothing an earlier evaluation stored there survives otherwise.
C6_FullReplacement ==
    Returned =>
        /\ store.state = "ok"
        /\ last.fund_id \in DOMAIN store.index
        /\ last.quarter \in DOMAIN store.index[last.fund_id]
        /\ LET m == store.index[last.fund_id][last.quarter]
           IN  /\ DOMAIN m = {section_key(last.sections[i].name, i - 1) :
                                i \in 1..Len(last.sections)}
               /\ \A i \in 1..Len(last.sections) :
                     LET e == m[section_key(last.sections[i].name, i - 1)]
                     IN  /\ e.hash = compute_hash(last.sections[i].text)
                         /\ e.section = last.sections[i].name

C6_Witness ==
    /\ Returned
    /\ last.existing_current_map.present
    /\ Cardinality(DOMAIN last.existing_current_map.map) = 2
    /\ last.sections = <<>>
    /\ DOMAIN store.index[last.fund_id][last.quarter] = {}

\* what the call would return and write were the persisted index the empty dict
OnEmptyIndex ==
    evaluate_sections(save_index(EmptyDict), last.fund_id, last.quarter, last.sections)

\* C8: on a malformed store the call raises, returns no results and leaves the
\* store as it was; on a missing store it returns what it returns on an empty
\* index, every section "new", and creates the store.
C8_StoreFailureSemantics ==
    /\ last.before = "malformed" =>
          /\ last.outcome = "raised"
          /\ last.results = <<>>
          /\ store = MalformedStore
          /\ pc # "evaluated"
    /\ last.before = "missing" =>
          /\ last.outcome = "returned"
          /\ store.state = "ok"
          /\ last.results = OnEmptyIndex.results
          /\ store = OnEmptyIndex.file
          /\ Len(last.results) = Len(last.sections)
          /\ \A i \in ResultIdx :
                /\ last.results[i].status = "new"
                /\ last.results[i].previous_hash = None

C8_Witness ==
    /\ last.before = "malformed"
    /\ last.outcome = "raised"
    /\ Len(last.sections) = 2
    /\ pc = "failed"

\* the index a call finds in the file: the empty dict when the file is missing
IndexBefore == IF store.state = "ok" THEN store.index ELSE EmptyDict

\* C20: a call of evaluate_sections(fund, quarter, ...) that returns changes in
\* the persisted index only index[fund][quarter]: every other fund keeps its
\* entry, every other quarter of the fund keeps its map, and no other fund or
\* quarter appears.
C20_FrameCondition ==
    [][(nCalls' = nCalls + 1 /\ last'.outcome = "returned") =>
          LET fund == last'.fund_id
              quarter == last'.quarter
              old_quarters == IF fund \in DOMAIN IndexBefore
                              THEN DOMAIN IndexBefore[fund] ELSE {}
          IN  /\ store'.state = "ok"
              /\ DOMAIN store'.index = (DOMAIN IndexBefore) \cup {fund}
              /\ \A other \in (DOMAIN IndexBefore) \ {fund} :
                    store'.index[other] = IndexBefore[other]
              /\ DOMAIN store'.index[fund] = old_quarters \cup {quarter}
              /\ \A other \in old_quarters \ {quarter} :
                    store'.index[fund][other] = IndexBefore[fund][other]]_vars

\* a returned call on an index that holds another fund and another quarter of
\* the call's fund, both with sections
C20_Witness ==
    /\ Returned
    /\ \E other \in (DOMAIN store.index) \ {last.fund_id} :
          \E q \in DOMAIN store.index[other] : DOMAIN store.index[other][q] # {}
    /\ \E q \in OtherQuarters : DOMAIN store.index[last.fund_id][q] # {}
    /\ last.sections # <<>>

-----------------------------------------------------------------------------
(* Properties of the emitted records, checked under Spec *)

\* the document's records are written: _emit_chunks has run for the latest call
Emitted == Returned /\ pc = "idle"

\* sub occurs in s as a run of consecutive elements
Embeds(s, sub) ==
    \E k \in 0..(Len(s) - Len(sub)) : SubSeq(s, k + 1, k + Len(sub)) = sub

\* positions in entries of the records of the section at 0-based position idx
EntriesOf(idx, type) ==
    {n \in 1..Len(entries) : entries[n].section_idx = idx /\ entries[n].type = type}

\* C10: a section contributes exactly one summary record when its status is
\* new or updated and none when it is reuse; the summary text is non-empty, for
\* updated it embeds the previous and the current hash, and the summary record
\* precedes the section's chunk records.
C10_SummaryGatedByStatus ==
    Emitted =>
        \A i \in ResultIdx :
            LET r == last.results[i]
                summaries == EntriesOf(i - 1, "summary")
            IN  /\ r.status = "reuse" => summaries = {}
                /\ r.status \in {"new", "updated"} =>
                      /\ Cardinality(summaries) = 1
                      /\ \A n \in summaries :
                            /\ entries[n].text # <<>>
                            /\ entries[n].change_type = r.status
                            /\ \A c \in EntriesOf(i - 1, "chunk") : n < c
                /\ r.status = "updated" =>
                      \A n \in summaries :
                          /\ Embeds(entries[n].text, r.previous_hash)
                          /\ Embeds(entries[n].text, r.current_hash)
                          /\ r.previous_hash # r.current_hash

C10_Witness ==
    /\ Emitted
    /\ Len(last.results) = 2
    /\ last.results[1].status = "updated"
    /\ last.results[2].status = "reuse"
    /\ EntriesOf(0, "summary") # {}
    /\ EntriesOf(0, "chunk") # {}
    /\ EntriesOf(1, "summary") = {}
    /\ EntriesOf(1, "chunk") # {}

-----------------------------------------------------------------------------
(* Two callers of evaluate_sections on one store path, each making one     *)
(* call.  The call reads the file at line 49 and rewrites it at line 92;   *)
(* save_index opens the file for writing, which empties it (line 39), and  *)
(* writes the dump when the handle closes (line 40).  Nothing orders the   *)
(* steps of the two calls.                                                 *)

ConcQuarters == {Q2025Q1, Q2025Q2}

ConcSectionLists ==
    { <<Sec("top_holdings", <<"a", "b">>)>>,
      <<Sec("top_holdings", <<>>), Sec("performance", <<"a", "b">>)>> }

InitConc ==
    /\ store = MissingStore
    /\ pc = "idle"
    /\ last = NoCall
    /\ entries = <<>>
    /\ storedBefore = {}
    /\ nCalls = 0
    /\ procs = [p \in Procs |-> IdleProc]
    /\ overlapped = FALSE
    /\ chunkIn = NoChunkCall
    /\ chunkOut = NoChunkResult
    /\ StagesIdle

InFlight(p) == procs[p].pc \in {"loaded", "writing"}

\* line 49 and the computation of lines 50-91 on the loaded index
ConcLoad(p, fund_id, quarter, sections) ==
    /\ procs[p].pc = "idle"
    /\ LET loaded == load_index(store)
           r == evaluate_loaded(loaded.index, fund_id, quarter, sections)
       IN  procs' = [procs EXCEPT ![p] =
                        IF loaded.raised
                        THEN [pc |-> "raised", fund_id |-> fund_id, quarter |-> quarter,
                              sections |-> sections, index |-> EmptyDict, results |-> <<>>]
                        ELSE [pc |-> "loaded", fund_id |-> fund_id, quarter |-> quarter,
                              sections |-> sections, index |-> r.index,
                              results |-> r.results]]
    /\ overlapped' = (overlapped \/ \E o \in Procs \ {p} : InFlight(o))
    /\ UNCHANGED <<store, pc, last, entries, storedBefore, nCalls, chunkIn, chunkOut,
                   stageVars>>

\* save_index line 39: path.open("w") empties the file
ConcOpen(p) ==
    /\ procs[p].pc = "loaded"
    /\ store' = TruncatedStore
    /\ procs' = [procs EXCEPT ![p].pc = "writing"]
    /\ UNCHANGED <<pc, last, entries, storedBefore, nCalls, overlapped, chunkIn, chunkOut,
                   stageVars>>

\* save_index line 40 and the return at line 93: the dump is written from
\* offset 0.  Over a file another handle has written meanwhile, the result is
\* this dump, or this dump followed by the rest of the longer one, which does
\* not parse.
ConcWrite(p) ==
    /\ procs[p].pc = "writing"
    /\ \/ store' = save_index(procs[p].index)
       \/ /\ store.state # "truncated"
          /\ store' = MalformedStore
    /\ procs' = [procs EXCEPT ![p].pc = "returned"]
    /\ UNCHANGED <<pc, last, entries, storedBefore, nCalls, overlapped, chunkIn, chunkOut,
                   stageVars>>

NextConc ==
    \/ \E p \in Procs, f \in Funds, q \in ConcQuarters, s \in ConcSectionLists :
          ConcLoad(p, f, q, s)
    \/ \E p \in Procs : ConcOpen(p)
    \/ \E p \in Procs : ConcWrite(p)

SpecConc == InitConc /\ [][NextConc]_vars

(* Properties of concurrent calls, checked under SpecConc *)

AllFinished == \A p \in Procs : procs[p].pc \in {"returned", "raised"}

\* the call of p returned its results, and the persisted index has no entry
\* for the (fund, quarter) it wrote
Lost(p) ==
    /\ procs[p].pc = "returned"
    /\ ~(/\ store.state = "ok"
         /\ procs[p].fund_id \in DOMAIN store.index
         /\ procs[p].quarter \in DOMAIN store.index[procs[p].fund_id])

\* C7: once both calls have ended, the persisted index lacks the entry of a
\* call that returned normally only if the two calls overlapped; strictly
\* serialized calls lose nothing.  The witness is the lost update itself: both
\* loads before either save, the later save replacing the whole file.
C7_LostUpdateOnlyWhenOverlapped ==
    AllFinished => \A p \in Procs : Lost(p) => overlapped

C7_Witness ==
    /\ \A p \in Procs : procs[p].pc = "returned"
    /\ overlapped
    /\ store.state = "ok"
    /\ \E p \in Procs :
          /\ Lost(p)
          /\ Len(procs[p].results) = Len(procs[p].sections)
          /\ \A o \in Procs \ {p} : ~Lost(o)

-----------------------------------------------------------------------------
(* The chunker on its own: one call of chunk_section_text per behaviour *)

ChunkAlphabet == {"a", "b", " "}

ChunkTexts == UNION {[1..n -> ChunkAlphabet] : n \in 0..MaxTextLen}

InitChunk ==
    /\ store = MissingStore
    /\ pc = "idle"
    /\ last = NoCall
    /\ entries = <<>>
    /\ storedBefore = {}
    /\ nCalls = 0
    /\ procs = NoProcs
    /\ overlapped = FALSE
    /\ chunkIn \in [text : ChunkTexts, chunk_size : 0..MaxChunkSize,
                    overlap : 0..MaxChunkSize]
    /\ chunkOut = [state |-> "pending", chunks |-> <<>>]
    /\ StagesIdle

\* chunk_section_text(section_name, text, chunk_size=..., overlap=...)
ChunkCall ==
    /\ chunkOut.state = "pending"
    /\ LET r == chunk_section_text("s", chunkIn.text, chunkIn.chunk_size, chunkIn.overlap)
       IN  chunkOut' = [state |-> IF r.raised THEN "raised" ELSE "returned",
                        chunks |-> r.chunks]
    /\ UNCHANGED <<store, pc, last, entries, storedBefore, nCalls, procs, overlapped,
                   chunkIn, stageVars>>

SpecChunk == InitChunk /\ [][ChunkCall]_vars

(* Properties of the chunker, checked under SpecChunk *)

\* the trimmed text the offsets refer to
CleanText == Strip(chunkIn.text)

Step == chunkIn.chunk_size - chunkIn.overlap

RECURSIVE NonSpace(_)
NonSpace(s) ==
    IF s = <<>> THEN <<>>
    ELSE IF IsSpace(Head(s)) THEN NonSpace(Tail(s))
    ELSE <<Head(s)>> \o NonSpace(Tail(s))

\* offset in the trimmed text of the first character of a chunk's text: the
\* window start moved past the whitespace the strip removed
TextStart(chunk) ==
    chunk.start_offset
    + (Len(Slice(CleanText, chunk.start_offset, chunk.end_offset))
       - Len(LStrip(Slice(CleanText, chunk.start_offset, chunk.end_offset))))

\* chunk k's text without the characters the previous chunk's window held
WithoutOverlap(chunks, k) ==
    LET from == IF k = 1 \/ chunks[k - 1].end_offset <= TextStart(chunks[k])
                THEN 0
                ELSE chunks[k - 1].end_offset - TextStart(chunks[k])
    IN  SubSeq(chunks[k].text, from + 1, Len(chunks[k].text))

RECURSIVE Reconstructed(_, _)
Reconstructed(chunks, k) ==
    IF k > Len(chunks) THEN <<>>
    ELSE WithoutOverlap(chunks, k) \o Reconstructed(chunks, k + 1)

\* the window starts 0, step, 2*step, ... below the length whose window holds a
\* character that is not whitespace
LiveWindowStarts ==
    {st \in 0..(Len(CleanText) - 1) :
        /\ st % Step = 0
        /\ \E pos \in st..(Min(st + chunkIn.chunk_size, Len(CleanText)) - 1) :
              ~IsSpace(CleanText[pos + 1])}

\* C9: for chunk_size > 0 and 0 <= overlap < chunk_size no character is
\* skipped: every non-whitespace position of the trimmed text lies in the
\* window of an emitted chunk and stands in that chunk's text, the windows
\* start at the multiples of chunk_size - overlap below the length, and the
\* chunk texts with their overlaps removed give back the trimmed text up to
\* whitespace.
C9_ChunkCoverage ==
    chunkOut.state = "returned" =>
        LET chunks == chunkOut.chunks
        IN  /\ \A pos \in 0..(Len(CleanText) - 1) :
                  ~IsSpace(CleanText[pos + 1]) =>
                      \E k \in 1..Len(chunks) :
                          /\ chunks[k].start_offset <= pos
                          /\ pos < chunks[k].end_offset
                          /\ pos - TextStart(chunks[k]) \in 0..(Len(chunks[k].text) - 1)
                          /\ chunks[k].text[pos - TextStart(chunks[k]) + 1] = CleanText[pos + 1]
            /\ {chunks[k].start_offset : k \in 1..Len(chunks)} = LiveWindowStarts
            /\ \A k \in 1..Len(chunks) :
                  /\ chunks[k].index = k - 1
                  /\ chunks[k].end_offset
                        = Min(chunks[k].start_offset + chunkIn.chunk_size, Len(CleanText))
                  /\ chunks[k].text
                        = Strip(Slice(CleanText, chunks[k].start_offset, chunks[k].end_offset))
                  /\ k > 1 => chunks[k - 1].start_offset < chunks[k].start_offset
            /\ NonSpace(Reconstructed(chunks, 1)) = NonSpace(CleanText)

\* overlapping windows, a window dropped for being all whitespace, and a
\* chunk whose text lost whitespace to the strip
C9_Witness ==
    /\ chunkOut.state = "returned"
    /\ chunkIn.overlap > 0
    /\ Len(chunkOut.chunks) >= 2
    /\ Cardinality({st \in 0..(Len(CleanText) - 1) : st % Step = 0}) > Len(chunkOut.chunks)
    /\ \E k \in 1..Len(chunkOut.chunks) :
          Len(chunkOut.chunks[k].text)
              < chunkOut.chunks[k].end_offset - chunkOut.chunks[k].start_offset

-----------------------------------------------------------------------------
(* preprocessing/english_filter.py: the page classifier on its own, one    *)
(* call of _is_chinese_dominant per behaviour.  A float threshold is the   *)
(* pair <<numerator, denominator>> of the decimal it is written as; for    *)
(* counts this small the quotient of the two counts is below the double    *)
(* nearest to the threshold exactly when it is below the decimal.          *)

MaxPageLen == 4

MaxThreshold == 3

\* a CJK character, two ASCII letters, a digit, a letter outside ASCII
PageAlphabet == {"U+4E2D", "a", "Z", "7", "U+00E9"}

PageTexts == UNION {[1..n -> PageAlphabet] : n \in 0..MaxPageLen}

RatioThresholds == {<<0, 1>>, <<1, 2>>, <<4, 5>>, <<1, 1>>, <<3, 2>>}

\* "一" <= char <= "鿿"
_is_cjk(char) == ~isascii(char) /\ code_between(Ord(char), 19968, 40959)

\* sum(1 for ch in text if pred(ch))
CountChars(text, pred(_)) == Len(SelectSeq(text, pred))

IsAsciiLetter(ch) == isascii(ch) /\ IsAsciiAlpha(ch)

\* mutant: an empty or symbols-only page counts as Chinese
_is_chinese_dominant_keeps_empty(text, chinese_threshold, ascii_ratio_threshold) ==
    LET chinese == CountChars(text, _is_cjk)
        ascii_letters == CountChars(text, IsAsciiLetter)
        total_letters == chinese + ascii_letters
    IN  IF chinese >= chinese_threshold THEN TRUE
        ELSE IF total_letters = 0 THEN TRUE
        ELSE ascii_letters * ascii_ratio_threshold[2]
                 < ascii_ratio_threshold[1] * total_letters

_is_chinese_dominant(text, chinese_threshold, ascii_ratio_threshold) ==
    LET chinese == CountChars(text, _is_cjk)
        ascii_letters == CountChars(text, IsAsciiLetter)
        total_letters == chinese + ascii_letters
    IN  IF chinese >= chinese_threshold THEN TRUE
        ELSE IF total_letters = 0 THEN FALSE
        \* ascii_letters / total_letters < ascii_ratio_threshold
        ELSE ascii_letters * ascii_ratio_threshold[2]
                 < ascii_ratio_threshold[1] * total_letters

IndexIdle ==
    /\ store = MissingStore
    /\ pc = "idle"
    /\ last = NoCall
    /\ entries = <<>>
    /\ storedBefore = {}
    /\ nCalls = 0
    /\ procs = NoProcs
    /\ overlapped = FALSE
    /\ chunkIn = NoChunkCall
    /\ chunkOut = NoChunkResult

InitPage ==
    /\ IndexIdle
    /\ page \in [state : {"pending"}, text : PageTexts,
                 chinese_threshold : 0..MaxThreshold,
                 ascii_ratio_threshold : RatioThresholds, kept : {FALSE}]
    /\ seg = NoSeg
    /\ hold = NoHold
    /\ registry = NoRegistry
    /\ run = NoRun
    /\ cleanDir = NoCleanDir

\* remove_english_pages line 65 for one page
ClassifyPage ==
    /\ page.state = "pending"
    /\ page' = [page EXCEPT
                  !.state = "done",
                  !.kept = _is_chinese_dominant(page.text, page.chinese_threshold,
                                                page.ascii_ratio_threshold)]
    /\ UNCHANGED <<indexVars, seg, hold, registry, run, cleanDir>>

SpecPage == InitPage /\ [][ClassifyPage]_vars

(* Properties of the classifier, checked under SpecPage *)

\* the CJK count k and the ASCII-letter count a of the page
PageK == Cardinality({i \in 1..Len(page.text) : _is_cjk(page.text[i])})

PageA ==
    Cardinality({i \in 1..Len(page.text) :
                    page.text[i] \in {"a", "Z"}})

\* C12: the page is kept iff k >= t, or k + a > 0 and a / (k + a) < r; a page
\* with k >= t is kept whatever a and r are, and a page without any letter is
\* dropped whenever t > 0.
C12_ClassifierRule ==
    page.state = "done" =>
        LET k == PageK
            a == PageA
            t == page.chinese_threshold
            num == page.ascii_ratio_threshold[1]
            den == page.ascii_ratio_threshold[2]
        IN  /\ page.kept <=> (k >= t \/ (k + a > 0 /\ a * den < num * (k + a)))
            /\ k >= t => page.kept
            /\ (k = 0 /\ a = 0 /\ t > 0) => ~page.kept

\* a page below the CJK threshold kept for its ratio, with letters of both kinds
C12_Witness ==
    /\ page.state = "done"
    /\ page.kept
    /\ PageK < page.chinese_threshold
    /\ PageK > 0 /\ PageA > 0
    /\ page.ascii_ratio_threshold = <<4, 5>>

-----------------------------------------------------------------------------
(* Python str operations the parsing stages use *)

\* sub in s
str_in(sub, s) ==
    \E k \in 0..(Len(s) - Len(sub)) : SubSeq(s, k + 1, k + Len(sub)) = sub

\* s.startswith(prefix)
startswith(s, prefix) ==
    Len(prefix) <= Len(s) /\ SubSeq(s, 1, Len(prefix)) = prefix

\* sep.join(parts)
RECURSIVE join(_, _)
join(sep, parts) ==
    IF parts = <<>> THEN <<>>
    ELSE IF Len(parts) = 1 THEN parts[1]
    ELSE parts[1] \o sep \o join(sep, Tail(parts))

\* the line boundaries of str.splitlines
LineBoundaries ==
    {"\n", "\r", "U+000B", "\f", "U+001C", "U+001D", "U+001E", "U+0085", "U+2028",
     "U+2029"}

\* the length of the line boundary at place i: "\r\n" is one boundary
boundary_len(text, i) ==
    IF text[i] = "\r" /\ i < Len(text) /\ text[i + 1] = "\n" THEN 2 ELSE 1

\* text.splitlines(): the lines without their boundaries, no empty last line
RECURSIVE splitlines(_)
splitlines(text) ==
    IF text = <<>> THEN <<>>
    ELSE IF \E i \in 1..Len(text) : text[i] \in LineBoundaries
    THEN LET i == CHOOSE i \in 1..Len(text) :
                      /\ text[i] \in LineBoundaries
                      /\ \A j \in 1..(i - 1) : text[j] \notin LineBoundaries
         IN  <<SubSeq(text, 1, i - 1)>>
             \o splitlines(SubSeq(text, i + boundary_len(text, i), Len(text)))
    ELSE <<text>>

\* re.sub(r"\s+", " ", text)
RECURSIVE collapse_whitespace(_)
collapse_whitespace(text) ==
    IF text = <<>> THEN <<>>
    ELSE IF IsSpace(Head(text)) THEN <<" ">> \o collapse_whitespace(LStrip(text))
    ELSE <<Head(text)>> \o collapse_whitespace(Tail(text))

\* text.split(): the runs of non-whitespace characters
RECURSIVE split(_)
split(text) ==
    LET t == LStrip(text)
    IN  IF t = <<>> THEN <<>>
        ELSE LET n == IF \E i \in 1..Len(t) : IsSpace(t[i])
                      THEN (CHOOSE i \in 1..Len(t) :
                               IsSpace(t[i]) /\ \A j \in 1..(i - 1) : ~IsSpace(t[j])) - 1
                      ELSE Len(t)
             IN  <<SubSeq(t, 1, n)>> \o split(SubSeq(t, n + 1, Len(t)))

-----------------------------------------------------------------------------
(* cleaning/normalizers.py *)

\* the replacements of FULLWIDTH_PUNCTUATION, one character at a time
FULLWIDTH_PUNCTUATION(ch) ==
    CASE ch = "U+FF0C" -> ","
      [] ch = "U+3001" -> ","
      [] ch = "U+3002" -> "."
      [] ch = "U+FF1A" -> ":"
      [] ch = "U+FF1B" -> ";"
      [] ch = "U+FF1F" -> "?"
      [] ch = "U+FF01" -> "!"
      [] ch = "U+FF08" -> "("
      [] ch = "U+FF09" -> ")"
      [] ch = "U+FF05" -> "%"
      [] OTHER -> ch

\* re.sub(rf"{symbol}(?=\S)", symbol + " ", text)
RECURSIVE space_after(_, _)
space_after(symbol, text) ==
    IF text = <<>> THEN <<>>
    ELSE IF Head(text) = symbol /\ Len(text) > 1 /\ ~IsSpace(text[2])
    THEN <<symbol, " ">> \o space_after(symbol, Tail(text))
    ELSE <<Head(text)>> \o space_after(symbol, Tail(text))

_ensure_spacing_after_punctuation(text) ==
    space_after(":", space_after(";", space_after(",", text)))

normalize_line(text) ==
    IF text = <<>> THEN <<>>
    ELSE LET stripped == Strip(text)
             replaced == [i \in 1..Len(stripped) |-> FULLWIDTH_PUNCTUATION(stripped[i])]
         IN  _ensure_spacing_after_punctuation(collapse_whitespace(replaced))

\* the non-empty normalized lines, in order
normalize_lines(lines) ==
    SelectSeq([i \in 1..Len(lines) |-> normalize_line(lines[i])], LAMBDA l : l # <<>>)

-----------------------------------------------------------------------------
(* parsers/pdf_parser.py: regular expressions.  A pattern is a sequence of *)
(* atoms, each a character test with a quantifier: a literal character,    *)
(* \s or the dot, taken once, "+", "*" or "?".                            *)

Atom(kind, ch, quantifier) == [kind |-> kind, ch |-> ch, q |-> quantifier]

\* the atoms of a literal run of characters
Lit(chars) == [i \in 1..Len(chars) |-> Atom("lit", chars[i], "1")]

\* re.compile(..., re.IGNORECASE) when ignorecase
Pattern(pattern_atoms, ignorecase) == [atoms |-> pattern_atoms, ignorecase |-> ignorecase]

\* one character against one atom
atom_accepts(atom, ch) ==
    CASE atom.kind = "lit" -> ch = atom.ch
      [] atom.kind = "space" -> IsSpace(ch)
      [] atom.kind = "any" -> ch # "\n"

\* pattern.match at the start of s: some way of taking the atoms consumes a prefix
RECURSIVE re_match_here(_, _)
re_match_here(pattern_atoms, s) ==
    IF pattern_atoms = <<>> THEN TRUE
    ELSE LET atom == Head(pattern_atoms)
             rest == Tail(pattern_atoms)
             takes == s # <<>> /\ atom_accepts(atom, Head(s))
         IN  CASE atom.q = "1" -> takes /\ re_match_here(rest, Tail(s))
               [] atom.q = "+" -> takes /\ (\/ re_match_here(rest, Tail(s))
                                            \/ re_match_here(pattern_atoms, Tail(s)))
               [] atom.q = "*" -> \/ re_match_here(rest, s)
                                  \/ takes /\ re_match_here(pattern_atoms, Tail(s))
               [] atom.q = "?" -> \/ re_match_here(rest, s)
                                  \/ takes /\ re_match_here(rest, Tail(s))

\* bool(pattern.search(s)).  With re.IGNORECASE the literals of the pattern,
\* written in lower case, are compared with the lower-cased text.
re_search(pattern, s) ==
    LET subject == IF pattern.ignorecase THEN lower(s) ELSE s
    IN  \E k \in 0..Len(subject) :
            re_match_here(pattern.atoms, SubSeq(subject, k + 1, Len(subject)))

-----------------------------------------------------------------------------
(* parsers/pdf_parser.py: the section segmenter *)

SectionDefinition(name, patterns) == [name |-> name, patterns |-> patterns]

DEFAULT_SECTION_DEFINITIONS ==
    <<
      SectionDefinition("important_information",
        <<
          Pattern(Lit(<<"i", "m", "p", "o", "r", "t", "a", "n", "t">>) \o <<Atom("space", "", "+")>> \o Lit(<<"i", "n", "f", "o", "r", "m", "a", "t", "i", "o", "n">>), TRUE),
          Pattern(Lit(<<"U+91CD", "U+8981", "U+4E8B", "U+9805">>), FALSE)
        >>),
      SectionDefinition("top_holdings",
        <<
          Pattern(Lit(<<"t", "o", "p">>) \o <<Atom("space", "", "+")>> \o Lit(<<"1", "0">>) \o <<Atom("space", "", "+")>> \o Lit(<<"h", "o", "l", "d", "i", "n", "g", "s">>), TRUE),
          Pattern(Lit(<<"U+5341", "U+5927", "U+6301", "U+80A1">>), FALSE),
          Pattern(Lit(<<"U+5341", "U+5927", "U+6301", "U+5009">>), FALSE),
          Pattern(Lit(<<"U+5341", "U+5927", "U+6301", "U+4ED3">>), FALSE),
          Pattern(Lit(<<"U+80A1", "U+7968", "U+5341", "U+5927", "U+6301", "U+5009">>), FALSE),
          Pattern(Lit(<<"U+56FA", "U+5B9A", "U+6536", "U+76CA", "U+5341", "U+5927", "U+6301", "U+5009">>), FALSE),
          Pattern(<<Atom("lit", "U+5341", "+")>> \o <<Atom("lit", "U+5927", "+")>> \o <<Atom("any", "", "*")>> \o <<Atom("lit", "U+6301", "+")>> \o <<Atom("lit", "U+80A1", "+")>>, FALSE),
          Pattern(<<Atom("lit", "U+5341", "+")>> \o <<Atom("lit", "U+5927", "+")>> \o <<Atom("any", "", "*")>> \o <<Atom("lit", "U+6301", "+")>> \o <<Atom("lit", "U+5009", "+")>>, FALSE),
          Pattern(Lit(<<"U+5341", "U+5927", "U+6295", "U+8CC7", "U+9805", "U+76EE">>), FALSE)
        >>),
      SectionDefinition("performance",
        <<
          Pattern(Lit(<<"c", "a", "l", "e", "n", "d", "a", "r">>) \o <<Atom("space", "", "+")>> \o Lit(<<"y", "e", "a", "r">>) \o <<Atom("space", "", "+")>> \o Lit(<<"r", "e", "t", "u", "r", "n", "s">>), TRUE),
          Pattern(Lit(<<"U+5E74", "U+5EA6", "U+56DE", "U+5831">>), FALSE),
          Pattern(Lit(<<"U+7D2F", "U+7A4D", "U+56DE", "U+5831">>), FALSE)
        >>),
      SectionDefinition("product_summary",
        <<
          Pattern(Lit(<<"p", "r", "o", "d", "u", "c", "t">>) \o <<Atom("space", "", "+")>> \o Lit(<<"k", "e", "y">>) \o <<Atom("space", "", "+")>> \o Lit(<<"f", "a", "c", "t", "s">>), TRUE),
          Pattern(Lit(<<"U+7522", "U+54C1", "U+8CC7", "U+6599", "U+6982", "U+8981">>), FALSE)
        >>),
      SectionDefinition("objective_strategy",
        <<
          Pattern(Lit(<<"o", "b", "j", "e", "c", "t", "i", "v", "e">>) \o <<Atom("lit", "s", "?")>> \o <<Atom("space", "", "+")>> \o Lit(<<"a", "n", "d">>) \o <<Atom("space", "", "+")>> \o Lit(<<"i", "n", "v", "e", "s", "t", "m", "e", "n", "t">>) \o <<Atom("space", "", "+")>> \o Lit(<<"s", "t", "r", "a", "t", "e", "g", "y">>), TRUE),
          Pattern(Lit(<<"U+76EE", "U+6A19", "U+53CA", "U+6295", "U+8CC7", "U+7B56", "U+7565">>), FALSE)
        >>),
      SectionDefinition("fees_charges",
        <<
          Pattern(Lit(<<"f", "e", "e">>) \o <<Atom("lit", "s", "?")>> \o <<Atom("space", "", "+")>> \o Lit(<<"a", "n", "d">>) \o <<Atom("space", "", "+")>> \o Lit(<<"c", "h", "a", "r", "g", "e", "s">>), TRUE),
          Pattern(Lit(<<"U+8CBB", "U+7528">>), FALSE),
          Pattern(Lit(<<"U+8CBB", "U+7528", "U+53CA", "U+958B", "U+652F">>), FALSE)
        >>),
      SectionDefinition("other_information",
        <<
          Pattern(Lit(<<"o", "t", "h", "e", "r">>) \o <<Atom("space", "", "+")>> \o Lit(<<"i", "n", "f", "o", "r", "m", "a", "t", "i", "o", "n">>), TRUE),
          Pattern(Lit(<<"U+5176", "U+4ED6", "U+8CC7", "U+6599">>), FALSE)
        >>)
    >>

\* the definition _match_section returns: the first in list order one of whose
\* patterns is found in the line; matched is FALSE for None
_match_section(line, definitions) ==
    LET normalized == Strip(line)
        hits == {d \in 1..Len(definitions) :
                    \E n \in 1..Len(definitions[d].patterns) :
                        re_search(definitions[d].patterns[n], normalized)}
    IN  IF normalized = <<>> \/ hits = {} THEN [matched |-> FALSE, name |-> ""]
        ELSE [matched |-> TRUE,
              name |-> definitions[CHOOSE d \in hits : \A e \in hits : d <= e].name]

\* PdfSection
PdfSection(name, title, pages, lines) ==
    [name |-> name, title |-> title, pages |-> pages, lines |-> lines]

\* PdfSection.text
section_text(section) == Strip(join(<<"\n">>, section.lines))

\* line 167: the accumulator the loop starts with
document_intro ==
    PdfSection("document_intro",
               <<"D", "o", "c", "u", "m", "e", "n", "t", " ", "I", "n", "t", "r", "o", "d", "u", "c", "t", "i", "o", "n">>,
               <<>>, <<>>)

\* the <<page_index, line>> pairs the two loops of lines 169-176 go through
RECURSIVE page_lines(_, _)
page_lines(pages, page_index) ==
    IF page_index > Len(pages) THEN <<>>
    ELSE LET lines == normalize_lines(splitlines(pages[page_index]))
         IN  [n \in 1..Len(lines) |-> <<page_index, lines[n]>>]
             \o page_lines(pages, page_index + 1)

\* mutant: the heading line becomes the first body line of the section it opens
segment_line_keeps_heading(acc, page_index, line) ==
    LET matched_def == _match_section(line, DEFAULT_SECTION_DEFINITIONS)
        current_section == acc.current_section
    IN  IF matched_def.matched
        THEN [sections |-> IF current_section.lines # <<>>
                           THEN Append(acc.sections, current_section)
                           ELSE acc.sections,
              current_section |-> PdfSection(matched_def.name, Strip(line),
                                             <<page_index>>, <<line>>)]
        ELSE [sections |-> acc.sections,
              current_section |->
                  [current_section EXCEPT
                      !.lines = Append(@, line),
                      !.pages = IF \E n \in 1..Len(@) : @[n] = page_index
                                THEN @ ELSE Append(@, page_index)]]

\* one pass of the inner loop, lines 177-191
segment_line(acc, page_index, line) ==
    LET matched_def == _match_section(line, DEFAULT_SECTION_DEFINITIONS)
        current_section == acc.current_section
    IN  IF matched_def.matched
        THEN [sections |-> IF current_section.lines # <<>>
                           THEN Append(acc.sections, current_section)
                           ELSE acc.sections,
              current_section |-> PdfSection(matched_def.name, Strip(line),
                                             <<page_index>>, <<>>)]
        ELSE [sections |-> acc.sections,
              current_section |->
                  [current_section EXCEPT
                      !.lines = Append(@, line),
                      !.pages = IF \E n \in 1..Len(@) : @[n] = page_index
                                THEN @ ELSE Append(@, page_index)]]

\* mutant: the final accumulator is emitted only when it has lines
flush_final_needs_lines(acc) ==
    IF acc.current_section.lines # <<>>
    THEN Append(acc.sections, acc.current_section)
    ELSE acc.sections

\* lines 193-194
flush_final(acc) ==
    IF acc.current_section.lines # <<>> \/ acc.current_section.name # "document_intro"
    THEN Append(acc.sections, acc.current_section)
    ELSE acc.sections

RECURSIVE segment_from(_, _, _)
segment_from(acc, todo, i) ==
    IF i > Len(todo) THEN acc
    ELSE segment_from(segment_line(acc, todo[i][1], todo[i][2]), todo, i + 1)

\* the sections of ParseResult, for the page texts of the file read
parse_pdf_sections(pages) ==
    flush_final(segment_from([sections |-> <<>>, current_section |-> document_intro],
                             page_lines(pages, 1), 1))

-----------------------------------------------------------------------------
(* The segmenter on its own: one call of parse_pdf_sections per behaviour, *)
(* one step per normalized line, on a file of two pages.                   *)

MaxSegLines == 4

LineImportant == <<"I", "m", "p", "o", "r", "t", "a", "n", "t", " ", "I", "n", "f", "o", "r", "m", "a", "t", "i", "o", "n">>

LineFooBar == <<"f", "o", "o", " ", "b", "a", "r">>

LineTopHoldings == <<"T", "o", "p", " ", "1", "0", " ", "H", "o", "l", "d", "i", "n", "g", "s">>

LineAapl == <<"A", "A", "P", "L", " ", "I", "n", "f", "o", " ", "T", "e", "c", "h", " ", "5", ".", "2">>

\* "Other information，fees  and Charges": two definitions match it
LineOtherFees ==
    <<"O", "t", "h", "e", "r", " ", "i", "n", "f", "o", "r", "m", "a", "t", "i", "o", "n", "U+FF0C", "f", "e", "e", "s", " ", " ", "a", "n", "d", " ", "C", "h", "a", "r", "g", "e", "s">>

\* the lines page.extract_text() yields, before normalization
SegRawLines == {LineImportant, LineFooBar, LineTopHoldings, LineAapl, LineOtherFees}

\* the page texts of a two-page file: up to MaxSegLines lines, the page break
\* before the first, the second or the third of them
SegDocs ==
    UNION {{<<join(<<"\n">>, SubSeq(ls, 1, k)), join(<<"\n">>, SubSeq(ls, k + 1, Len(ls)))>> :
               k \in 0..Min(Len(ls), 2)} :
           ls \in UNION {[1..n -> SegRawLines] : n \in 0..MaxSegLines}}

InitSeg ==
    /\ IndexIdle
    /\ page = NoPage
    /\ seg \in {[state |-> "loop", pages |-> d, todo |-> page_lines(d, 1), i |-> 0,
                 sections |-> <<>>, current_section |-> document_intro] : d \in SegDocs}
    /\ hold = NoHold
    /\ registry = NoRegistry
    /\ run = NoRun
    /\ cleanDir = NoCleanDir

\* lines 176-191 for the next line
SegLine ==
    /\ seg.state = "loop"
    /\ seg.i < Len(seg.todo)
    /\ LET acc == segment_line([sections |-> seg.sections,
                                current_section |-> seg.current_section],
                               seg.todo[seg.i + 1][1], seg.todo[seg.i + 1][2])
       IN  seg' = [seg EXCEPT !.i = seg.i + 1,
                              !.sections = acc.sections,
                              !.current_section = acc.current_section]
    /\ UNCHANGED <<indexVars, page, hold, registry, run, cleanDir>>

\* lines 193-207 once the pages are exhausted
SegFinish ==
    /\ seg.state = "loop"
    /\ seg.i = Len(seg.todo)
    /\ seg' = [seg EXCEPT
                 !.state = "done",
                 !.sections = flush_final([sections |-> seg.sections,
                                           current_section |-> seg.current_section])]
    /\ UNCHANGED <<indexVars, page, hold, registry, run, cleanDir>>

NextSeg == SegLine \/ SegFinish

SpecSeg == InitSeg /\ [][NextSeg]_vars

(* Properties of the segmenter, checked under SpecSeg *)

\* the j-th normalized line of the file
SegLineAt(j) == seg.todo[j][2]

\* the definitions, by position in the list, one of whose patterns is found in
\* the line
MatchingDefs(line) ==
    {d \in 1..Len(DEFAULT_SECTION_DEFINITIONS) :
        \E n \in 1..Len(DEFAULT_SECTION_DEFINITIONS[d].patterns) :
            re_search(DEFAULT_SECTION_DEFINITIONS[d].patterns[n], line)}

\* positions, among the lines processed so far, of the heading lines
HeadingPositions == {j \in 1..seg.i : MatchingDefs(SegLineAt(j)) # {}}

\* where an accumulator starts: 0 for the leading default section, the
\* position of its heading line otherwise
BlockStarts(heads) == {0} \cup heads

\* the lines after the start b up to the next heading: the body of its block
BlockBody(heads, b) ==
    LET stop == IF \E h \in heads : h > b
                THEN (CHOOSE h \in heads : h > b /\ \A g \in heads : g > b => h <= g) - 1
                ELSE seg.i
    IN  [n \in 1..(stop - b) |-> SegLineAt(b + n)]

LastStart(heads) == CHOOSE b \in BlockStarts(heads) : \A c \in BlockStarts(heads) : c <= b

\* the starts of the accumulators the segmenter holds, in order: those with a
\* body that a later heading closed, then the current one
KeptStarts(heads) ==
    {b \in BlockStarts(heads) : b = LastStart(heads) \/ BlockBody(heads, b) # <<>>}

KthStart(heads, k) ==
    CHOOSE b \in KeptStarts(heads) : Cardinality({c \in KeptStarts(heads) : c < b}) = k - 1

\* the accumulators the segmenter holds: the closed sections and the current one
Accumulators ==
    IF seg.state = "loop" \/ seg.sections = <<>>
          \/ seg.sections[Len(seg.sections)] # seg.current_section
    THEN seg.sections \o <<seg.current_section>>
    ELSE seg.sections

RECURSIVE BodyLineCount(_)
BodyLineCount(sections) ==
    IF sections = <<>> THEN 0
    ELSE Len(Head(sections).lines) + BodyLineCount(Tail(sections))

\* C14: every line matching a pattern of some definition opens a section named
\* after the first definition in list order with a matching pattern and titled
\* with that line; a heading line is in the body of no section; every other
\* line is in the body of exactly one section, the one current when it came.
C14_HeadingHandling ==
    seg.state # "none" =>
        LET heads == HeadingPositions
        IN  /\ Len(Accumulators) = Cardinality(KeptStarts(heads))
            /\ \A k \in 1..Len(Accumulators) :
                  LET b == KthStart(heads, k)
                      section == Accumulators[k]
                  IN  /\ section.lines = BlockBody(heads, b)
                      /\ b = 0 => section.name = "document_intro"
                      /\ b > 0 =>
                            LET defs == MatchingDefs(SegLineAt(b))
                                first == CHOOSE d \in defs : \A e \in defs : d <= e
                            IN  /\ section.name = DEFAULT_SECTION_DEFINITIONS[first].name
                                /\ section.title = SegLineAt(b)
            /\ BodyLineCount(Accumulators) = seg.i - Cardinality(heads)

\* a heading two definitions match, a heading whose section stayed empty and
\* was dropped by the next heading, and body lines before and after
C14_Witness ==
    /\ seg.state = "done"
    /\ Len(seg.todo) = 4
    /\ Len(seg.sections) = 2
    /\ seg.sections[1].name = "document_intro"
    /\ seg.sections[2].name = "fees_charges"
    /\ seg.sections[2].lines # <<>>
    /\ Cardinality(HeadingPositions) = 2
    /\ \E j \in 1..4 : Cardinality(MatchingDefs(SegLineAt(j))) = 2

\* C15: document_intro is emitted only as the first section and only if a line
\* preceded the first heading; a section closed by the next heading has a
\* body, so every emitted section but the last has one; the final accumulator
\* is emitted iff it has lines or was opened by a heading.  The four lines
\* Important Information, foo bar, Top 10 Holdings, AAPL Info Tech 5.2 yield
\* important_information and top_holdings with one body line each.
C15_EmissionRule ==
    /\ seg.state = "loop" => \A k \in 1..Len(seg.sections) : seg.sections[k].lines # <<>>
    /\ seg.state = "done" =>
          LET heads == HeadingPositions
          IN  /\ \A k \in 1..Len(seg.sections) :
                    /\ seg.sections[k].name = "document_intro" =>
                          /\ k = 1
                          /\ seg.todo # <<>>
                          /\ 1 \notin heads
                          /\ seg.sections[k].lines # <<>>
                    /\ k < Len(seg.sections) => seg.sections[k].lines # <<>>
              /\ LET final == seg.current_section
                     emitted == /\ seg.sections # <<>>
                                /\ seg.sections[Len(seg.sections)] = final
                                /\ Len(seg.sections) = Cardinality(KeptStarts(heads))
                 IN  emitted <=> (final.lines # <<>> \/ heads # {})
              /\ [n \in 1..Len(seg.todo) |-> SegLineAt(n)]
                    = <<LineImportant, LineFooBar, LineTopHoldings, LineAapl>>
                 => /\ Len(seg.sections) = 2
                    /\ seg.sections[1].name = "important_information"
                    /\ seg.sections[1].lines = <<LineFooBar>>
                    /\ seg.sections[2].name = "top_holdings"
                    /\ seg.sections[2].lines = <<LineAapl>>

\* the example of the claim: no leading default section, two sections emitted
C15_Witness ==
    /\ seg.state = "done"
    /\ [n \in 1..Len(seg.todo) |-> SegLineAt(n)]
          = <<LineImportant, LineFooBar, LineTopHoldings, LineAapl>>
    /\ Len(seg.sections) = 2
    /\ seg.sections[1].name # "document_intro"

-----------------------------------------------------------------------------
(* parsers/pdf_parser.py: the holdings extractor *)

\* TopHoldingEntry
TopHoldingEntry(name, instrument_type) == [name |-> name, instrument_type |-> instrument_type]

\* None as an instrument type
NoType == "none"

SECTOR_NAMES ==
    <<
      <<"I", "n", "f", "o", "r", "m", "a", "t", "i", "o", "n", " ", "T", "e", "c", "h", "n", "o", "l", "o", "g", "y">>,
      <<"C", "o", "m", "m", "u", "n", "i", "c", "a", "t", "i", "o", "n", " ", "S", "e", "r", "v", "i", "c", "e", "s">>,
      <<"C", "o", "n", "s", "u", "m", "e", "r", " ", "D", "i", "s", "c", "r", "e", "t", "i", "o", "n", "a", "r", "y">>,
      <<"C", "o", "n", "s", "u", "m", "e", "r", " ", "S", "t", "a", "p", "l", "e", "s">>,
      <<"H", "e", "a", "l", "t", "h", " ", "C", "a", "r", "e">>,
      <<"F", "i", "n", "a", "n", "c", "i", "a", "l", "s">>,
      <<"I", "n", "d", "u", "s", "t", "r", "i", "a", "l", "s">>,
      <<"M", "a", "t", "e", "r", "i", "a", "l", "s">>,
      <<"U", "t", "i", "l", "i", "t", "i", "e", "s">>,
      <<"R", "e", "a", "l", " ", "E", "s", "t", "a", "t", "e">>,
      <<"E", "n", "e", "r", "g", "y">>,
      <<"O", "t", "h", "e", "r">>,
      <<"C", "a", "s", "h">>,
      <<"C", "a", "s", "h", " ", "&", " ", "D", "e", "r", "i", "v", "a", "t", "i", "v", "e", "s">>
    >>

stop_keywords ==
    <<
      <<"U+6295", "U+8CC7", "U+7D44", "U+5408">>,
      <<"U+7D44", "U+5408", "U+5206", "U+5E03">>,
      <<"U+7D44", "U+5408", "U+5206", "U+4F48">>,
      <<"U+985E", "U+5225", "U+5206", "U+5E03">>,
      <<"U+985E", "U+5225", "U+5206", "U+4F48">>,
      <<"U+80A1", "U+7968", "U+7279", "U+9EDE">>,
      <<"U+56FA", "U+5B9A", "U+6536", "U+76CA", "U+7279", "U+9EDE">>,
      <<"U+884C", "U+696D", "U+5206", "U+4F48">>,
      <<"U+884C", "U+696D", "U+5206", "U+5E03">>,
      <<"U+6ED9", "U+8C50", "U+96C6", "U+5408">>,
      <<"U+6708", "U+5EA6", "U+5831", "U+544A">>,
      <<"U+6709", "U+95DC", "U+8A5E", "U+5F59">>,
      <<"U+91CD", "U+8981", "U+8CC7", "U+8A0A">>,
      <<"U+95DC", "U+6CE8", "U+6211", "U+5011">>
    >>

\* any(token in text for token in tokens)
any_in(tokens, text) == \E n \in 1..Len(tokens) : str_in(tokens[n], text)

\* re.fullmatch of [0-9]+(?:\.[0-9]+)?%? : digits, optionally a dot and
\* digits, optionally a percent sign
is_value(s) ==
    LET body == IF s # <<>> /\ s[Len(s)] = "%" THEN SubSeq(s, 1, Len(s) - 1) ELSE s
        digits(t) == t # <<>> /\ \A n \in 1..Len(t) : IsDigit(t[n])
    IN  \/ digits(body)
        \/ \E d \in 2..(Len(body) - 1) :
              /\ body[d] = "."
              /\ digits(SubSeq(body, 1, d - 1))
              /\ digits(SubSeq(body, d + 1, Len(body)))

\* _VALUE_AT_END_PATTERN.search(candidate) for a candidate without line
\* breaks: the leftmost position from which the rest is a value; found is
\* FALSE for no match, start is match.start()
value_at_end(candidate) ==
    LET starts == {k \in 0..(Len(candidate) - 1) :
                      is_value(SubSeq(candidate, k + 1, Len(candidate)))}
    IN  IF starts = {} THEN [found |-> FALSE, start |-> 0]
        ELSE [found |-> TRUE, start |-> CHOOSE k \in starts : \A j \in starts : k <= j]

\* a character of the class [A-Za-z0-9.,'&()/ -]
IsNameChar(ch) ==
    IsAsciiAlpha(ch) \/ IsDigit(ch) \/ ch \in {".", ",", "'", "&", "(", ")", "/", " ", "-"}

\* \w: a letter, a digit or the underscore, CJK characters included
\* the letters outside ASCII and outside the CJK block that the modelled texts
\* use
OtherLetters == {"U+00E9"}

IsWordChar(ch) ==
    IsAsciiAlpha(ch) \/ IsDigit(ch) \/ ch = "_" \/ _is_cjk(ch) \/ ch \in OtherLetters

\* _SECTOR_PATTERN.match(name_part): the lazy name group is the shortest run of
\* name characters followed by whitespace, a sector name in any case, and a
\* word boundary; name is group("name")
sector_match(name_part) ==
    LET lowered == lower(name_part)
        sector_at(k) ==
            \E n \in 1..Len(SECTOR_NAMES) :
                LET sector == lower(SECTOR_NAMES[n])
                    stop == k + Len(sector)
                IN  /\ stop <= Len(name_part)
                    /\ SubSeq(lowered, k + 1, stop) = sector
                    /\ (stop = Len(name_part) \/ ~IsWordChar(name_part[stop + 1]))
        fits(n) ==
            /\ \A j \in 1..n : IsNameChar(name_part[j])
            /\ \E m \in 1..(Len(name_part) - n) :
                  /\ \A j \in (n + 1)..(n + m) : IsSpace(name_part[j])
                  /\ sector_at(n + m)
        lengths == {n \in 1..Len(name_part) : fits(n)}
    IN  IF lengths = {} THEN [matched |-> FALSE, name |-> <<>>]
        ELSE [matched |-> TRUE,
              name |-> SubSeq(name_part, 1, CHOOSE n \in lengths : \A j \in lengths : n <= j)]

\* bool(_CHINESE_CHAR_PATTERN.search(text))
_contains_cjk(text) == \E n \in 1..Len(text) : _is_cjk(text[n])

_clean_company_name(raw) ==
    LET normalized == Strip(collapse_whitespace(raw))
        tokens == split(normalized)
        \* the tokens before the first CJK token that is not the first token
        cut == {n \in 2..Len(tokens) : _contains_cjk(tokens[n])}
        primary == IF cut = {} THEN tokens
                   ELSE SubSeq(tokens, 1, (CHOOSE n \in cut : \A j \in cut : n <= j) - 1)
        cleaned == Strip(join(<<" ">>, primary))
    IN  IF normalized = <<>> THEN <<>>
        ELSE IF cleaned # <<>> THEN cleaned ELSE normalized

_infer_type_from_title(title) ==
    LET normalized == lower(title)
    IN  IF title = <<>> THEN NoType
        ELSE IF ~any_in(<<<<"U+6301", "U+5009">>, <<"U+6301", "U+4ED3">>, <<"h", "o", "l", "d", "i", "n", "g", "s">>, <<"h", "o", "l", "d", "i", "n", "g">>>>,
                        normalized)
        THEN NoType
        ELSE IF any_in(<<<<"U+56FA", "U+5B9A", "U+6536", "U+76CA">>,
                         <<"f", "i", "x", "e", "d", " ", "i", "n", "c", "o", "m", "e">>,
                         <<"U+50B5", "U+5238">>,
                         <<"U+503A", "U+5238">>,
                         <<"b", "o", "n", "d">>>>,
                       normalized)
        THEN "fixed_income"
        ELSE IF any_in(<<<<"U+80A1", "U+7968">>, <<"e", "q", "u", "i", "t", "y">>>>, normalized)
        THEN "equity"
        ELSE NoType

bond_tokens ==
    <<
      <<" ", "b", "o", "n", "d">>,
      <<"b", "o", "n", "d", " ">>,
      <<"b", "n", "d", " ">>,
      <<" ", "n", "o", "t", "e">>,
      <<"n", "o", "t", "e", "s">>,
      <<"U+50B5">>,
      <<"U+503A">>,
      <<"d", "e", "b", "e", "n", "t", "u", "r", "e">>,
      <<"b", "i", "l", "l">>,
      <<"t", "r", "e", "a", "s", "u", "r", "y">>,
      <<"c", "e", "r", "t", "i", "f", "i", "c", "a", "t", "e">>
    >>

_infer_type_from_name(name) ==
    IF any_in(bond_tokens, lower(name)) THEN "fixed_income" ELSE NoType

\* the state of the loop: entries, buffer and current_type
HoldState(entries_, buffer, current_type) ==
    [entries |-> entries_, buffer |-> buffer, current_type |-> current_type]

\* mutant: the type inferred from the name takes precedence over current_type
entry_type_name_first(current_type, from_name) ==
    IF from_name # NoType THEN from_name
    ELSE IF current_type # NoType THEN current_type
    ELSE "equity"

\* lines 253 and 257: current_type or the type inferred from the name, or
\* "equity"
entry_type(current_type, from_name) ==
    IF current_type # NoType THEN current_type
    ELSE IF from_name # NoType THEN from_name
    ELSE "equity"

\* lines 252-259: the entry of a name that is not empty
flush_name(st, name) ==
    IF name = <<>> THEN st.entries
    ELSE Append(st.entries,
                TopHoldingEntry(name, entry_type(st.current_type,
                                                 _infer_type_from_name(name))))

\* lines 246-250: the name group of the sector pattern, or the cleaned name
name_from(sector, name_part) ==
    IF sector.matched THEN Strip(sector.name) ELSE _clean_company_name(name_part)

\* lines 242-250
flush_name_part(st, name_part) ==
    IF name_part = <<>> \/ str_in(<<"%">>, name_part) THEN st.entries
    ELSE flush_name(st, name_from(sector_match(name_part), name_part))

\* lines 239-241
flush_match(st, candidate, match) ==
    IF ~match.found THEN st.entries
    ELSE flush_name_part(st, Strip(SubSeq(candidate, 1, match.start)))

\* line 238
flush_candidate(st, candidate) == flush_match(st, candidate, value_at_end(candidate))

\* the entries list after _flush_buffer(), lines 233-259
_flush_buffer(st) ==
    IF st.buffer = <<>> THEN st.entries
    ELSE flush_candidate(st, collapse_whitespace(Strip(join(<<" ">>, st.buffer))))

\* the branch of the loop body a line takes, in the order the code tests them
line_rule(line) ==
    LET text == Strip(line)
        lowered == lower(text)
    IN  IF text = <<>> THEN "blank"
        ELSE IF startswith(lowered, <<"s", "e", "c", "t", "o", "r", " ">>) THEN "sector"
        ELSE IF startswith(lowered, <<"t", "o", "t", "a", "l">>)
                \/ str_in(<<"U+5408", "U+5171">>, text)
        THEN "total"
        ELSE IF _infer_type_from_title(text) # NoType THEN "type"
        ELSE IF any_in(<<<<"U+67E5", "U+95B1">>, <<"U+8ACB", "U+6383", "U+63CF">>>>, text)
        THEN "cue"
        ELSE IF any_in(stop_keywords, text) THEN "stop"
        ELSE "data"

\* mutant: the completed row is flushed but stays in the buffer
data_rule_keeps_buffer(appended) ==
    IF value_at_end(collapse_whitespace(join(<<" ">>, appended.buffer))).found
    THEN HoldState(_flush_buffer(appended), appended.buffer, appended.current_type)
         @@ [break |-> FALSE]
    ELSE appended @@ [break |-> FALSE]

\* lines 285-291: the line is in the buffer; a candidate that ends in a value
\* is flushed
data_rule(appended) ==
    IF value_at_end(collapse_whitespace(join(<<" ">>, appended.buffer))).found
    THEN HoldState(_flush_buffer(appended), <<>>, appended.current_type)
         @@ [break |-> FALSE]
    ELSE appended @@ [break |-> FALSE]

\* mutant: a stop keyword is handled like a see-more cue
apply_rule_no_break(st, text, rule) ==
    IF rule \in {"blank", "sector", "total"}
    THEN HoldState(st.entries, st.buffer, st.current_type) @@ [break |-> FALSE]
    ELSE IF rule = "data"
    THEN data_rule(HoldState(st.entries, Append(st.buffer, text), st.current_type))
    ELSE HoldState(_flush_buffer(st), <<>>,
                   IF rule = "type" THEN _infer_type_from_title(text) ELSE st.current_type)
         @@ [break |-> FALSE]

\* the branch taken, lines 263-291: a skipped line leaves the state alone; a
\* type header, a cue and a stop keyword flush and clear the buffer, the header
\* sets current_type and the stop keyword breaks
apply_rule(st, text, rule) ==
    IF rule \in {"blank", "sector", "total"}
    THEN HoldState(st.entries, st.buffer, st.current_type) @@ [break |-> FALSE]
    ELSE IF rule = "data"
    THEN data_rule(HoldState(st.entries, Append(st.buffer, text), st.current_type))
    ELSE HoldState(_flush_buffer(st), <<>>,
                   IF rule = "type" THEN _infer_type_from_title(text) ELSE st.current_type)
         @@ [break |-> rule = "stop"]

\* one pass of the loop body, lines 262-291; break tells whether the loop ends
extract_line(st, line) == apply_rule(st, Strip(line), line_rule(line))

RECURSIVE extract_from(_, _, _)
extract_from(st, lines, i) ==
    IF i > Len(lines) \/ st.break THEN st
    ELSE extract_from(extract_line(st, lines[i]), lines, i + 1)

\* the entries returned for a section with this title and these lines
extract_top_holdings_entries(title, lines) ==
    _flush_buffer(extract_from(HoldState(<<>>, <<>>, _infer_type_from_title(title))
                                   @@ [break |-> FALSE],
                               lines, 1))

-----------------------------------------------------------------------------
(* The holdings extractor on its own: one call of                          *)
(* extract_top_holdings_entries per behaviour, one step per line.          *)

MaxHoldLines == 3

TitleTopHoldings == <<"T", "o", "p", " ", "1", "0", " ", "H", "o", "l", "d", "i", "n", "g", "s">>

\* a title with a fixed-income cue
TitleFixedIncome ==
    <<"U+56FA", "U+5B9A", "U+6536", "U+76CA", "U+5341", "U+5927", "U+6301", "U+5009">>

HoldTitles == {TitleTopHoldings, TitleFixedIncome}

LineApple ==
    <<"A", "p", "p", "l", "e", " ", "I", "n", "c", " ", "I", "n", "f", "o", "r", "m", "a", "t", "i", "o", "n", " ", "T", "e", "c", "h", "n", "o", "l", "o", "g", "y", " ", "5", ".", "2">>

LineTreasury ==
    <<"U", "S", " ", "T", "r", "e", "a", "s", "u", "r", "y", " ", "B", "o", "n", "d", " ", "2", ".", "1", "%">>

LineSectorHeader == <<"S", "e", "c", "t", "o", "r", " ", "W", "e", "i", "g", "h", "t">>

\* a total row that also holds a stop keyword
LineTotal ==
    <<"T", "o", "t", "a", "l", " ", "U+6295", "U+8CC7", "U+7D44", "U+5408", " ", "1", "0", "0">>

\* a sub-table header with an equity cue that also holds a see-more cue
LineEquityHeader ==
    <<"E", "q", "u", "i", "t", "y", " ", "H", "o", "l", "d", "i", "n", "g", "s", " ", "U+67E5", "U+95B1">>

\* a see-more cue that also holds a stop keyword and ends in a number
LineSeeMore ==
    <<"U+67E5", "U+95B1", " ", "U+6295", "U+8CC7", "U+7D44", "U+5408", " ", "9", ".", "9">>

\* a stop keyword
LineStop == <<"U+6295", "U+8CC7", "U+7D44", "U+5408", " ", "3", ".", "3">>

\* the first line of a row that continues on the next line
LineTencent == <<"T", "e", "n", "c", "e", "n", "t">>

LineValue == <<"3", ".", "4">>

HoldLines ==
    {LineApple, LineTreasury, LineSectorHeader, LineTotal, LineEquityHeader,
     LineSeeMore, LineStop, LineTencent, LineValue}

InitHold ==
    /\ IndexIdle
    /\ page = NoPage
    /\ seg = NoSeg
    /\ hold \in {[pc |-> "loop", title |-> t, lines |-> ls, i |-> 0,
                  entries |-> <<>>, buffer |-> <<>>,
                  current_type |-> _infer_type_from_title(t),
                  rule |-> "none", type_before |-> NoType, n_before |-> 0] :
                 t \in HoldTitles,
                 ls \in UNION {[1..n -> HoldLines] : n \in 0..MaxHoldLines}}
    /\ registry = NoRegistry
    /\ run = NoRun
    /\ cleanDir = NoCleanDir

\* lines 261-291 for the next line of the section; a stop keyword ends the
\* loop, and the flush of line 293 and the return follow
\* the call after a pass of the loop body that left the state st
hold_after(h, st) ==
    [h EXCEPT
       !.pc = IF st.break THEN "done" ELSE "loop",
       !.i = h.i + 1,
       !.entries = IF st.break THEN _flush_buffer(st) ELSE st.entries,
       !.buffer = st.buffer,
       !.current_type = st.current_type,
       !.rule = line_rule(h.lines[h.i + 1]),
       !.type_before = h.current_type,
       !.n_before = Len(h.entries)]

HoldLine ==
    /\ hold.pc = "loop"
    /\ hold.i < Len(hold.lines)
    /\ hold' = hold_after(hold, extract_line(HoldState(hold.entries, hold.buffer,
                                                       hold.current_type),
                                             hold.lines[hold.i + 1]))
    /\ UNCHANGED <<indexVars, page, seg, registry, run, cleanDir>>

\* lines 293-294 once the lines are exhausted
HoldReturn ==
    /\ hold.pc = "loop"
    /\ hold.i = Len(hold.lines)
    /\ hold' = [hold EXCEPT
                  !.pc = "done",
                  !.entries = _flush_buffer(HoldState(hold.entries, hold.buffer,
                                                      hold.current_type)),
                  !.rule = "return",
                  !.type_before = hold.current_type,
                  !.n_before = Len(hold.entries)]
    /\ UNCHANGED <<indexVars, page, seg, registry, run, cleanDir>>

NextHold == HoldLine \/ HoldReturn

SpecHold == InitHold /\ [][NextHold]_vars

(* Properties of the holdings extractor, checked under SpecHold *)

\* the rule a line is handled by, the rules taken in the order: blank line,
\* 'sector ' header, total row, type-switch header, see-more or scan cue,
\* stop keyword, data
RuleOf(line) ==
    LET text == Strip(line)
        is_sector == startswith(lower(text), <<"s", "e", "c", "t", "o", "r", " ">>)
        is_total == startswith(lower(text), <<"t", "o", "t", "a", "l">>)
                    \/ str_in(<<"U+5408", "U+5171">>, text)
        is_type == _infer_type_from_title(text) # NoType
        is_cue == str_in(<<"U+67E5", "U+95B1">>, text)
                  \/ str_in(<<"U+8ACB", "U+6383", "U+63CF">>, text)
        is_stop == \E n \in 1..Len(stop_keywords) : str_in(stop_keywords[n], text)
    IN  CASE text = <<>> -> "blank"
          [] text # <<>> /\ is_sector -> "sector"
          [] text # <<>> /\ ~is_sector /\ is_total -> "total"
          [] text # <<>> /\ ~is_sector /\ ~is_total /\ is_type -> "type"
          [] text # <<>> /\ ~is_sector /\ ~is_total /\ ~is_type /\ is_cue -> "cue"
          [] text # <<>> /\ ~is_sector /\ ~is_total /\ ~is_type /\ ~is_cue /\ is_stop -> "stop"
          [] OTHER -> "data"

\* position of the first line that reaches the stop-keyword rule, one past the
\* last line when none does
FirstStop ==
    LET stops == {j \in 1..Len(hold.lines) : RuleOf(hold.lines[j]) = "stop"}
    IN  IF stops = {} THEN Len(hold.lines) + 1
        ELSE CHOOSE j \in stops : \A k \in stops : j <= k

\* current_type after the first n lines: the type of the latest type-switch
\* header among them, the type of the section title when there is none
TypeAfter(n) ==
    LET switches == {j \in 1..n : RuleOf(hold.lines[j]) = "type"}
    IN  IF switches = {} THEN _infer_type_from_title(hold.title)
        ELSE _infer_type_from_title(
                 Strip(hold.lines[CHOOSE j \in switches : \A k \in switches : k <= j]))

\* C16: the rules are tried in the stated order; the first line that reaches
\* the stop-keyword rule ends the extraction: the entries returned are those
\* returned for the lines before it, no later line is processed or changes
\* current_type; a see-more or scan cue clears the buffer and the loop goes on.
C16_StopTerminates ==
    /\ (hold.pc \in {"loop", "done"} /\ hold.i > 0 /\ hold.rule # "return") =>
          /\ hold.rule = RuleOf(hold.lines[hold.i])
          /\ hold.rule = "cue" => /\ hold.pc = "loop"
                                  /\ hold.buffer = <<>>
                                  /\ Len(hold.entries) = hold.n_before
          /\ hold.rule = "stop" => (hold.pc = "done" /\ hold.buffer = <<>>)
          /\ hold.i <= FirstStop
    /\ hold.pc = "done" =>
          /\ hold.i = Min(FirstStop, Len(hold.lines))
          /\ hold.entries
                = extract_top_holdings_entries(hold.title,
                                               SubSeq(hold.lines, 1, FirstStop - 1))
          /\ hold.current_type = TypeAfter(FirstStop - 1)

\* a row, then a stop keyword, then a row that is never read
C16_Witness ==
    /\ hold.pc = "done"
    /\ hold.lines = <<LineApple, LineStop, LineTreasury>>
    /\ hold.i = 2
    /\ Len(hold.entries) = 1

\* C17: every entry is equity or fixed_income; current_type is the type of the
\* title until a sub-table header with a type cue replaces it, and is never
\* unset again; an entry takes current_type when it is set, and otherwise is
\* fixed_income iff its name holds a bond-indicator token, else equity.
C17_InstrumentType ==
    hold.pc \in {"loop", "done"} =>
        /\ \A n \in 1..Len(hold.entries) :
              hold.entries[n].instrument_type \in {"equity", "fixed_income"}
        /\ hold.current_type = TypeAfter(hold.i)
        /\ hold.type_before # NoType => hold.current_type # NoType
        /\ Len(hold.entries) \in {hold.n_before, hold.n_before + 1}
        /\ Len(hold.entries) = hold.n_before + 1 =>
              LET entry == hold.entries[Len(hold.entries)]
                  has_bond_token ==
                      \E n \in 1..Len(bond_tokens) : str_in(bond_tokens[n], lower(entry.name))
              IN  entry.instrument_type =
                      IF hold.type_before # NoType THEN hold.type_before
                      ELSE IF has_bond_token THEN "fixed_income"
                      ELSE "equity"

\* a bond under a fixed-income title, then the same row after a header switched
\* the type to equity
C17_Witness ==
    /\ hold.pc = "done"
    /\ hold.lines = <<LineTreasury, LineEquityHeader, LineTreasury>>
    /\ hold.title = TitleFixedIncome
    /\ Len(hold.entries) = 2
    /\ hold.entries[1].instrument_type = "fixed_income"
    /\ hold.entries[2].instrument_type = "equity"
    /\ hold.entries[1].name = hold.entries[2].name

\* the buffered candidate: the parts of the buffer joined by single spaces
BufferedCandidate(buffer) == collapse_whitespace(join(<<" ">>, buffer))

\* the text ends in a number, with or without a percent sign after it
EndsInNumericToken(text) ==
    /\ text # <<>>
    /\ \/ IsDigit(text[Len(text)])
       \/ /\ Len(text) > 1
          /\ text[Len(text)] = "%"
          /\ IsDigit(text[Len(text) - 1])

\* the buffer is empty or its candidate does not end in a number
BufferInvariant(buffer) ==
    buffer = <<>> \/ ~EndsInNumericToken(BufferedCandidate(buffer))

\* one step of the extraction, from the call h to the call g
BufferStep(h, g) ==
    /\ Len(g.entries) \in {Len(h.entries), Len(h.entries) + 1}
    /\ SubSeq(g.entries, 1, Len(h.entries)) = h.entries
    /\ Len(g.entries) > Len(h.entries) =>
          /\ g.rule = "data"
          /\ EndsInNumericToken(
                 BufferedCandidate(Append(h.buffer, Strip(h.lines[g.i]))))
    /\ g.rule = "data" =>
          g.buffer = IF EndsInNumericToken(
                            BufferedCandidate(Append(h.buffer, Strip(h.lines[g.i]))))
                     THEN <<>>
                     ELSE Append(h.buffer, Strip(h.lines[g.i]))
    /\ g.rule \in {"type", "cue", "stop"} =>
          (g.entries = h.entries /\ g.buffer = <<>>)
    /\ g.rule = "return" => g.entries = h.entries
    /\ g.rule \in {"blank", "sector", "total"} =>
          (g.entries = h.entries /\ g.buffer = h.buffer)

\* C21: whenever a line starts being processed, and at the end of the input,
\* the buffered candidate is empty or does not end in a numeric token; an
\* entry is added only by the step that appended the line completing its row;
\* the flush of a type-switch header, a see-more or scan cue, a stop keyword
\* or the end of the section adds no entry; a skipped sector, total or blank
\* line leaves the buffer unchanged.
C21_BufferInvariant ==
    /\ [](hold.pc \in {"loop", "done"} => BufferInvariant(hold.buffer))
    /\ [][(hold.pc = "loop" /\ hold' # hold) => BufferStep(hold, hold')]_vars

\* a row completed by its second line, then the start of a row that the end
\* of the section discards
C21_Witness ==
    /\ hold.pc = "done"
    /\ hold.rule = "return"
    /\ hold.lines = <<LineTencent, LineValue, LineTencent>>
    /\ Len(hold.entries) = 1
    /\ hold.buffer = <<LineTencent>>

-----------------------------------------------------------------------------
(* outputs/writer_structured.py: the holdings registries                   *)

MaxValues == 3

\* a < b for two Python strings (code point order)
RECURSIVE str_lt(_, _)
str_lt(a, b) ==
    IF b = <<>> THEN FALSE
    ELSE IF a = <<>> THEN TRUE
    ELSE IF Head(a) = Head(b) THEN str_lt(Tail(a), Tail(b))
    ELSE Ord(Head(a)) < Ord(Head(b))

\* csv.writer.writerow([item]) without the line terminator: the field is
\* quoted, its quotes doubled, when it is empty or holds the delimiter, a
\* quote or a character of the line terminator
RECURSIVE double_quotes(_)
double_quotes(s) ==
    IF s = <<>> THEN <<>>
    ELSE (IF Head(s) = "\"" THEN <<"\"", "\"">> ELSE <<Head(s)>>) \o double_quotes(Tail(s))

csv_row(item) ==
    IF item = <<>> \/ \E n \in 1..Len(item) : item[n] \in {",", "\"", "\n", "\r"}
    THEN <<"\"">> \o double_quotes(item) \o <<"\"">>
    ELSE item

\* csv.reader before the first character of a record
CsvStart == [state |-> "START_RECORD", field |-> <<>>, fields |-> <<>>, rows |-> <<>>]

\* the field read so far is saved
csv_save(p, next) ==
    [p EXCEPT !.state = next, !.field = <<>>, !.fields = Append(p.fields, p.field)]

\* the character is added to the field
csv_add(p, c, next) == [p EXCEPT !.state = next, !.field = Append(p.field, c)]

\* the record read so far is returned
csv_emit(p) == [CsvStart EXCEPT !.rows = Append(p.rows, p.fields)]

\* the end of a field outside quotes: the end of the line returns the record,
\* a line break is eaten first
csv_end_field(p, c) ==
    IF c = "EOL" THEN csv_emit(csv_save(p, "START_RECORD"))
    ELSE csv_save(p, IF c = "," THEN "START_FIELD" ELSE "EAT_CRNL")

\* one step of the parser of csv.reader (excel dialect, not strict) for the
\* character c; "EOL" is the end of a line of the file; "ERROR" is the
\* csv.Error of a character that follows a line break within a line
csv_char(p, c) ==
    IF p.state = "START_RECORD" /\ c = "EOL" THEN csv_emit(p)
    ELSE IF p.state = "START_RECORD" /\ c \in {"\n", "\r"}
    THEN [p EXCEPT !.state = "EAT_CRNL"]
    ELSE IF p.state \in {"START_RECORD", "START_FIELD"}
    THEN IF c \in {"\n", "\r", "EOL", ","} THEN csv_end_field(p, c)
         ELSE IF c = "\"" THEN [p EXCEPT !.state = "IN_QUOTED_FIELD"]
         ELSE csv_add(p, c, "IN_FIELD")
    ELSE IF p.state = "IN_FIELD"
    THEN IF c \in {"\n", "\r", "EOL", ","} THEN csv_end_field(p, c)
         ELSE csv_add(p, c, "IN_FIELD")
    ELSE IF p.state = "IN_QUOTED_FIELD"
    THEN IF c = "EOL" THEN p
         ELSE IF c = "\"" THEN [p EXCEPT !.state = "QUOTE_IN_QUOTED_FIELD"]
         ELSE csv_add(p, c, "IN_QUOTED_FIELD")
    ELSE IF p.state = "QUOTE_IN_QUOTED_FIELD"
    THEN IF c = "\"" THEN csv_add(p, c, "IN_QUOTED_FIELD")
         ELSE IF c \in {"\n", "\r", "EOL", ","} THEN csv_end_field(p, c)
         ELSE csv_add(p, c, "IN_FIELD")
    ELSE IF p.state = "EAT_CRNL"
    THEN IF c \in {"\n", "\r"} THEN p
         ELSE IF c = "EOL" THEN csv_emit(p)
         ELSE [p EXCEPT !.state = "ERROR"]
    ELSE p

\* the file hands the reader its lines with their endings ("\n", "\r" and
\* "\r\n", newline=""): place i is the last character of a line
ends_line(text, i) ==
    \/ i = Len(text)
    \/ text[i] = "\n"
    \/ text[i] = "\r" /\ text[i + 1] # "\n"

\* the parser after the character, and after the end of the line it closes
csv_next(p, c, at_end) == IF at_end THEN csv_char(csv_char(p, c), "EOL") ELSE csv_char(p, c)

\* the parser after the text from place i on; an error ends the reading
RECURSIVE csv_text(_, _, _)
csv_text(p, text, i) ==
    IF p.state = "ERROR" \/ i > Len(text) THEN p
    ELSE csv_text(csv_next(p, text[i], ends_line(text, i)), text, i + 1)

\* the records returned at the end of the input: a quoted field that the input
\* leaves open ends with it
csv_rows(p) ==
    IF p.state = "IN_QUOTED_FIELD" THEN Append(p.rows, Append(p.fields, p.field))
    ELSE p.rows

\* list(csv.reader(...)) for a text
csv_reader(text) == csv_rows(csv_text(CsvStart, text, 1))

\* the parser after the lines of a file from the n-th on, each ended by "\r\n"
\* as the writer ends them
RECURSIVE csv_lines(_, _, _)
csv_lines(p, lines, n) ==
    IF n > Len(lines) THEN p
    ELSE csv_lines(csv_text(p, lines[n] \o <<"\r", "\n">>, 1), lines, n + 1)

\* list(csv.reader(handle)) for a file
csv_file(lines) == csv_rows(csv_lines(CsvStart, lines, 1))

\* existing[key] = value on a dict kept as its items in insertion order
dict_set(items, key, value) ==
    IF \E n \in 1..Len(items) : items[n].key = key
    THEN [n \in 1..Len(items) |->
             IF items[n].key = key THEN [key |-> key, value |-> value] ELSE items[n]]
    ELSE Append(items, [key |-> key, value |-> value])

dict_has(items, key) == \E n \in 1..Len(items) : items[n].key = key

\* the last column the field names give the header's name, 0 when none does
header_column(fieldnames, header) ==
    IF \A n \in 1..Len(fieldnames) : fieldnames[n] # header THEN 0
    ELSE CHOOSE n \in 1..Len(fieldnames) :
             /\ fieldnames[n] = header
             /\ \A k \in (n + 1)..Len(fieldnames) : fieldnames[k] # header

\* (row.get(header) or "") for a row of csv.DictReader: the field of the
\* column, nothing when the row is too short or no column has the name
row_get(row, column) == IF column = 0 \/ column > Len(row) THEN <<>> ELSE row[column]

\* line 44 for a value that is not empty
keep_value(existing, value) ==
    IF value = <<>> THEN existing ELSE dict_set(existing, lower(value), value)

\* lines 37-44: the records of the file from the i-th on, read by
\* csv.DictReader; the first record holds the field names
RECURSIVE read_existing(_, _, _, _)
read_existing(existing, rows, header, i) ==
    IF i > Len(rows) THEN existing
    ELSE read_existing(keep_value(existing,
                                  Strip(row_get(rows[i], header_column(rows[1], header)))),
                       rows, header, i + 1)

\* mutant: a later spelling replaces the stored one
RECURSIVE add_values_last_wins(_, _, _)
add_values_last_wins(st, values, i) ==
    IF i > Len(values) THEN st
    ELSE LET normalized == Strip(values[i])
             key == lower(normalized)
         IN  IF normalized = <<>> THEN add_values_last_wins(st, values, i + 1)
             ELSE add_values_last_wins(
                      [existing |-> dict_set(st.existing, key, normalized),
                       updated |-> st.updated \/ ~dict_has(st.existing, key)],
                      values, i + 1)

\* lines 46-55: the loop over the new values
RECURSIVE add_values(_, _, _)
add_values(st, values, i) ==
    IF i > Len(values) THEN st
    ELSE LET normalized == Strip(values[i])
             key == lower(normalized)
         IN  IF normalized = <<>> THEN add_values(st, values, i + 1)
             ELSE IF dict_has(st.existing, key) THEN add_values(st, values, i + 1)
             ELSE add_values([existing |-> dict_set(st.existing, key, normalized),
                              updated |-> TRUE],
                             values, i + 1)

\* one name put into a list sorted by x.lower(), after the names with an equal
\* key (sorted() is stable)
RECURSIVE insert_by_lower(_, _)
insert_by_lower(sorted_names, item) ==
    IF sorted_names = <<>> THEN <<item>>
    ELSE IF str_lt(lower(item), lower(Head(sorted_names)))
         THEN <<item>> \o sorted_names
         ELSE <<Head(sorted_names)>> \o insert_by_lower(Tail(sorted_names), item)

\* sorted(existing.values(), key=lambda x: x.lower())
RECURSIVE sorted_by_lower(_, _)
sorted_by_lower(items, n) ==
    IF n = 0 THEN <<>>
    ELSE insert_by_lower(sorted_by_lower(items, n - 1), items[n].value)

\* the lines of a text, "\r\n" ending each; line is the line begun so far
RECURSIVE crlf_lines(_, _)
crlf_lines(text, line) ==
    IF text = <<>> THEN <<line>>
    ELSE IF Len(text) >= 2 /\ text[1] = "\r" /\ text[2] = "\n"
    THEN <<line>> \o crlf_lines(Tail(Tail(text)), <<>>)
    ELSE crlf_lines(Tail(text), Append(line, Head(text)))

\* lines 61-65: the lines of the file written for the header and the names; a
\* name that holds "\r\n" takes several lines
RECURSIVE written_lines(_, _)
written_lines(items, n) ==
    IF n > Len(items) THEN <<>>
    ELSE crlf_lines(csv_row(items[n]), <<>>) \o written_lines(items, n + 1)

\* the file after _append_unique_strings(csv_path, header, values), and whether
\* the call wrote it; a file is its lines, a missing file has exists = FALSE
_append_unique_strings(file, header, values) ==
    LET existing == IF file.exists
                    THEN read_existing(<<>>, csv_file(file.lines), header, 2)
                    ELSE <<>>
        st == add_values([existing |-> existing, updated |-> FALSE], values, 1)
        sorted_names == sorted_by_lower(st.existing, Len(st.existing))
    IN  IF ~st.updated THEN [file |-> file, written |-> FALSE]
        ELSE [file |-> [exists |-> TRUE,
                        lines |-> written_lines(<<header>> \o sorted_names, 1)],
              written |-> TRUE]

HeaderCompanies == <<"c", "o", "m", "p", "a", "n", "y", "_", "n", "a", "m", "e">>

HeaderBonds == <<"s", "e", "c", "u", "r", "i", "t", "y", "_", "n", "a", "m", "e">>

NameApple == <<"A", "p", "p", "l", "e">>

NameAppleLower == <<"a", "p", "p", "l", "e">>

NameMicrosoft == <<"M", "i", "c", "r", "o", "s", "o", "f", "t">>

NamePadded == <<" ", "a", "p", "p", "l", "e", " ">>

NameComma == <<"A", ",", "b">>

RegistryNames ==
    {NameApple, NameAppleLower, NameMicrosoft, NamePadded, NameComma, <<>>, <<" ">>}

NoFile == [exists |-> FALSE, lines |-> <<>>]

\* the registry directory before the first run: no file
InitReg ==
    /\ IndexIdle
    /\ page = NoPage
    /\ seg = NoSeg
    /\ hold = NoHold
    /\ registry \in {[state |-> "ready", header |-> h, file |-> NoFile,
                      written |-> FALSE, example |-> "none",
                      seen |-> <<>>, file_before |-> NoFile] :
                     h \in {HeaderCompanies, HeaderBonds}}
    /\ run = NoRun
    /\ cleanDir = NoCleanDir

\* the list of the worked example
ExampleNames == <<NameApple, NameAppleLower, NameMicrosoft>>

\* the names of a list that no earlier name of the list equals ignoring case
RECURSIVE first_spellings(_, _)
first_spellings(names, n) ==
    IF n = 0 THEN <<>>
    ELSE IF \E k \in 1..(n - 1) : lower(names[k]) = lower(names[n])
         THEN first_spellings(names, n - 1)
         ELSE Append(first_spellings(names, n - 1), names[n])

\* append_top_holdings_companies / append_top_holdings_fixed_income with a list
\* of names; seen keeps the first spelling of every stripped non-empty name
\* appended so far, in arrival order; example tells whether the calls so far
\* were one or two appends of ExampleNames
AppendNames ==
    /\ registry.state = "ready"
    /\ \E values \in UNION {[1..k -> RegistryNames] : k \in 0..MaxValues} :
          LET result == _append_unique_strings(registry.file, registry.header, values)
              stripped == SelectSeq([k \in 1..Len(values) |-> Strip(values[k])],
                                    LAMBDA v : v # <<>>)
              all == registry.seen \o stripped
          IN  registry' = [registry EXCEPT
                             !.file = result.file,
                             !.written = result.written,
                             !.example =
                                 IF values = ExampleNames /\ registry.example = "none"
                                 THEN "once"
                                 ELSE IF values = ExampleNames /\ registry.example = "once"
                                 THEN "twice"
                                 ELSE "other",
                             !.seen = first_spellings(all, Len(all)),
                             !.file_before = registry.file]
    /\ UNCHANGED <<indexVars, page, seg, hold, run, cleanDir>>

SpecReg == InitReg /\ [][AppendNames]_vars

(* Properties of the registries, checked under SpecReg *)

\* the names a registry file holds, in file order
RowsOf(file) ==
    IF ~file.exists THEN <<>>
    ELSE LET rows == csv_file(file.lines)
         IN  [n \in 1..Len(rows) - 1 |-> rows[n + 1][1]]

\* the first spelling appended with this lower-cased key
FirstSeen(key) ==
    registry.seen[CHOOSE n \in 1..Len(registry.seen) :
                      /\ lower(registry.seen[n]) = key
                      /\ \A k \in 1..(n - 1) : lower(registry.seen[k]) # key]

\* C18: after any sequence of appends to an empty registry the rows are
\* pairwise distinct ignoring case, sorted ignoring case, and are exactly the
\* first-seen spellings of the non-empty names appended so far; an append
\* removes no row, and an append that brings no new name writes nothing.
C18_RegistryInvariant ==
    registry.state = "ready" =>
        LET rows == RowsOf(registry.file)
            before == RowsOf(registry.file_before)
            keys == {lower(registry.seen[n]) : n \in 1..Len(registry.seen)}
        IN  /\ \A n, k \in 1..Len(rows) : n < k => str_lt(lower(rows[n]), lower(rows[k]))
            /\ {rows[n] : n \in 1..Len(rows)} = {FirstSeen(key) : key \in keys}
            /\ \A n \in 1..Len(rows) : rows[n] # <<>> /\ Strip(rows[n]) = rows[n]
            /\ {before[n] : n \in 1..Len(before)} \subseteq {rows[n] : n \in 1..Len(rows)}
            /\ registry.file.exists = (keys # {})
            /\ registry.written = (registry.file # registry.file_before)
            /\ registry.written = (Len(rows) > Len(before))

\* ["Apple", "apple", "Microsoft"] appended twice: the rows are Apple and
\* Microsoft and the second append wrote nothing
C18_Witness ==
    /\ registry.state = "ready"
    /\ registry.example = "twice"
    /\ RowsOf(registry.file) = <<NameApple, NameMicrosoft>>
    /\ ~registry.written

-----------------------------------------------------------------------------
(* config.py: quarter labels *)

\* AppConfig.normalize_quarter: the label, or the ValueError of line 47
normalize_quarter(quarter) ==
    LET s == Strip(quarter)
        digits == Len(s) >= 4 /\ \A n \in 1..4 : IsDigit(s[n])
        rest == SubSeq(s, 5, Len(s))
        tail == IF rest # <<>> /\ Head(rest) \in {"-", " "} THEN Tail(rest) ELSE rest
        matched == /\ digits
                   /\ Len(tail) = 2
                   /\ tail[1] = "Q"
                   /\ tail[2] \in {"1", "2", "3", "4"}
    IN  IF matched
        THEN [raised |-> FALSE, value |-> SubSeq(s, 1, 4) \o <<"Q", tail[2]>>]
        ELSE [raised |-> TRUE, value |-> <<>>]

\* AppConfig.quarter_folder_name
quarter_folder_name(quarter) ==
    LET norm == normalize_quarter(quarter)
    IN  IF norm.raised THEN norm
        ELSE [raised |-> FALSE,
              value |-> SubSeq(norm.value, 1, 4) \o <<"-", "Q", norm.value[Len(norm.value)]>>]

-----------------------------------------------------------------------------
(* preprocessing/english_filter.py: remove_english_pages *)

DefaultChineseThreshold == 10

\* 0.8 as a fraction
DefaultAsciiRatioThreshold == <<4, 5>>

\* the 1-based numbers of the pages kept, lines 58-68
kept_pages(pages) ==
    SelectSeq([n \in 1..Len(pages) |-> n],
              LAMBDA n : _is_chinese_dominant(pages[n], DefaultChineseThreshold,
                                              DefaultAsciiRatioThreshold))

\* the result of remove_english_pages(pdf_path, output_path) on a file with
\* these pages: the kept page numbers, and the file written to output_path
\* when a page is kept (lines 70-83); nothing is written otherwise
remove_english_pages(pages) ==
    LET kept == kept_pages(pages)
    IN  [kept_pages |-> kept,
         written |-> kept # <<>>,
         output |-> [n \in 1..Len(kept) |-> pages[kept[n]]]]

-----------------------------------------------------------------------------
(* orchestrator.py: run_cleaning *)

\* [A-Za-z0-9\-]+ matches the whole string
IsCodeCandidate(s) ==
    s # <<>> /\ \A n \in 1..Len(s) : IsAsciiAlpha(s[n]) \/ IsDigit(s[n]) \/ s[n] = "-"

\* _split_name_code: stem.rsplit("_", 1)
_split_name_code(stem) ==
    LET at == {n \in 1..Len(stem) : stem[n] = "_"}
        last_at == CHOOSE n \in at : \A k \in at : k <= n
    IN  IF at # {} /\ IsCodeCandidate(SubSeq(stem, last_at + 1, Len(stem)))
        THEN <<SubSeq(stem, 1, last_at - 1), SubSeq(stem, last_at + 1, Len(stem))>>
        ELSE <<stem, stem>>

\* _derive_fund_metadata; no override is the empty string here
_derive_fund_metadata(stem, override_code) ==
    LET parts == _split_name_code(stem)
        code == IF override_code # <<>> THEN override_code
                ELSE IF parts[2] # <<>> THEN parts[2] ELSE stem
        name == IF Strip(parts[1]) # <<>> THEN Strip(parts[1]) ELSE stem
    IN  [code |-> Strip(code), name |-> name]

\* the names of the top_holdings sections, by instrument type, lines 122-129
RECURSIVE holdings_of(_, _, _)
holdings_of(sections, i, type) ==
    IF i > Len(sections) THEN <<>>
    ELSE LET found == IF sections[i].name = "top_holdings"
                      THEN extract_top_holdings_entries(sections[i].title, sections[i].lines)
                      ELSE <<>>
             of_type == SelectSeq(found,
                                  LAMBDA e : (e.instrument_type = "fixed_income")
                                             = (type = "fixed_income"))
         IN  [n \in 1..Len(of_type) |-> of_type[n].name]
             \o holdings_of(sections, i + 1, type)

\* a section as evaluate_sections and _emit_chunks read it
with_text(sections) ==
    [n \in 1..Len(sections) |-> sections[n] @@ [text |-> section_text(sections[n])]]

-----------------------------------------------------------------------------
(* The pipeline: run_cleaning, one call after another on the same *)
(* directories, one document per quarter folder.                            *)

MaxRuns == 2

QSpelledPlain == <<"2", "0", "2", "5", "Q", "2">>

QSpelledDash == <<"2", "0", "2", "5", "-", "Q", "2">>

QSpelledSpace == <<"2", "0", "2", "5", " ", "Q", "2">>

QOther == <<"2", "0", "2", "5", "Q", "1">>

\* the validation refuses a lower-case q
QLowerCase == <<"2", "0", "2", "5", "q", "2">>

RunQuarters == {QSpelledPlain, QSpelledDash, QSpelledSpace, QOther, QLowerCase}

\* a page the classifier keeps, with a holdings table
PageChinese ==
    <<"U+5341", "U+5927", "U+6301", "U+5009", "\n", "U+9A30", "U+8A0A", " ", "5", ".", "2">>

\* the same page with another weight
PageChineseChanged ==
    <<"U+5341", "U+5927", "U+6301", "U+5009", "\n", "U+9A30", "U+8A0A", " ", "6", ".", "1">>

\* a page the classifier removes, with a holdings table
PageEnglish ==
    <<"T", "o", "p", " ", "1", "0", " ", "H", "o", "l", "d", "i", "n", "g", "s", "\n", "A", "p", "p", "l", "e", " ", "I", "n", "c", " ", "5", ".", "2">>

RunDocs ==
    {<<PageChinese>>, <<PageChineseChanged>>, <<PageEnglish>>, <<PageEnglish, PageChinese>>}

\* the input folder of the quarter: missing, or holding one PDF file
RunInputs ==
    {[has_input |-> FALSE, pages |-> <<>>]}
    \cup {[has_input |-> TRUE, pages |-> d] : d \in RunDocs}

\* input_pdf.stem and input_pdf.name
InputStem == <<"F", "u", "n", "d", "_", "F", "1">>

InputName == <<"F", "u", "n", "d", "_", "F", "1", ".", "p", "d", "f">>

\* no run has ended between evaluate_sections and the writing of its file
NoAbort == [n |-> 0, quarter |-> <<>>, pages |-> <<>>, results |-> <<>>]

IdleRun ==
    [pc |-> "idle", n |-> 0, quarter |-> <<>>, incremental |-> TRUE, folder |-> <<>>,
     has_input |-> FALSE, pages |-> <<>>, kept_pages |-> <<>>, written |-> FALSE,
     read_pages |-> <<>>, read_from |-> "none", sections |-> <<>>,
     fund_code |-> <<>>, results |-> <<>>, aborted |-> NoAbort]

InitRun ==
    /\ store = MissingStore
    /\ pc = "idle"
    /\ last = NoCall
    /\ entries = <<>>
    /\ storedBefore = {}
    /\ nCalls = 0
    /\ procs = NoProcs
    /\ overlapped = FALSE
    /\ chunkIn = NoChunkCall
    /\ chunkOut = NoChunkResult
    /\ page = NoPage
    /\ seg = NoSeg
    /\ hold = NoHold
    /\ registry = [state |-> "files", companies |-> NoFile, bonds |-> NoFile]
    /\ run = IdleRun
    /\ cleanDir = NoCleanDir

\* the run once the folder name of its quarter is known: the ValueError of
\* normalize_quarter ends it, and so does a missing input folder
started_run(n, quarter, incremental, input, folder, aborted) ==
    [IdleRun EXCEPT
       !.pc = IF folder.raised THEN "failed"
              ELSE IF input.has_input THEN "started" ELSE "done",
       !.n = n + 1,
       !.quarter = quarter,
       !.incremental = incremental,
       !.folder = folder.value,
       !.has_input = ~folder.raised /\ input.has_input,
       !.pages = IF folder.raised THEN <<>> ELSE input.pages,
       !.aborted = aborted]

\* lines 51-76: the directories are resolved, which validates the quarter
RunStart(quarter, incremental, input) ==
    /\ run.pc \in {"idle", "done", "failed"}
    /\ run.n < MaxRuns
    /\ run' = started_run(run.n, quarter, incremental, input,
                           quarter_folder_name(quarter), run.aborted)
    /\ UNCHANGED <<indexVars, page, seg, hold, registry, cleanDir>>

\* the cleaned-PDF directory after the filter: output_pdf is written when a
\* page is kept
filtered_dir(dir, output_pdf, result) ==
    IF result.written THEN DictSet(dir, output_pdf, result.output) ELSE dir

filtered_run(r, result) ==
    [r EXCEPT !.pc = "filtered",
              !.kept_pages = result.kept_pages,
              !.written = result.written]

\* lines 78-79: remove_english_pages(input_pdf, output_pdf)
RunFilter ==
    /\ run.pc = "started"
    /\ cleanDir' = filtered_dir(cleanDir, <<run.folder, InputName>>,
                                remove_english_pages(run.pages))
    /\ run' = filtered_run(run, remove_english_pages(run.pages))
    /\ UNCHANGED <<indexVars, page, seg, hold, registry>>

\* line 88: output_pdf if output_pdf.exists() else input_pdf
cleaned_pdf(dir, output_pdf, input_pages) ==
    IF output_pdf \in DOMAIN dir
    THEN [read_from |-> "output", pages |-> dir[output_pdf]]
    ELSE [read_from |-> "input", pages |-> input_pages]

parsed_run(r, cleaned) ==
    [r EXCEPT !.pc = "parsed",
              !.read_pages = cleaned.pages,
              !.read_from = cleaned.read_from,
              !.sections = with_text(parse_pdf_sections(cleaned.pages))]

\* lines 88-89: the file parsed is the cleaned file when one exists, the input
\* file otherwise
RunParse ==
    /\ run.pc = "filtered"
    /\ run' = parsed_run(run, cleaned_pdf(cleanDir, <<run.folder, InputName>>, run.pages))
    /\ UNCHANGED <<indexVars, page, seg, hold, registry, cleanDir>>

evaluated_run(r, fund_code, evaluated) ==
    [r EXCEPT !.pc = IF evaluated.raised THEN "failed" ELSE "evaluated",
              !.fund_code = fund_code,
              !.results = evaluated.results]

\* lines 97-104: evaluate_sections with the quarter as the caller spelled it
RunEvaluate ==
    /\ run.pc = "parsed"
    /\ \E evaluated \in {evaluate_sections(store, _derive_fund_metadata(InputStem, <<>>).code,
                                           run.quarter, run.sections)} :
          /\ store' = evaluated.file
          /\ run' = evaluated_run(run, _derive_fund_metadata(InputStem, <<>>).code, evaluated)
    /\ UNCHANGED <<pc, last, entries, storedBefore, nCalls, procs, overlapped,
                   chunkIn, chunkOut, page, seg, hold, registry, cleanDir>>

\* lines 111-120: _emit_chunks writes the document's records
RunEmit ==
    /\ run.pc = "evaluated"
    /\ entries' = _emit_chunks(run.sections, run.results, run.quarter, run.fund_code)
    /\ run' = [run EXCEPT !.pc = "emitted"]
    /\ UNCHANGED <<store, pc, last, storedBefore, nCalls, procs, overlapped,
                   chunkIn, chunkOut, page, seg, hold, registry, cleanDir>>

\* lines 131-152: a registry is appended to when the run found a name for it
appended_file(file, header, names) ==
    IF names # <<>> THEN _append_unique_strings(file, header, names).file ELSE file

\* lines 122-152: the holdings of the document go to the two registries
RunRecord ==
    /\ run.pc = "emitted"
    /\ registry' = [registry EXCEPT
           !.companies = appended_file(registry.companies, HeaderCompanies,
                                       holdings_of(run.sections, 1, "equity")),
           !.bonds = appended_file(registry.bonds, HeaderBonds,
                                   holdings_of(run.sections, 1, "fixed_income"))]
    /\ run' = [run EXCEPT !.pc = "done"]
    /\ UNCHANGED <<indexVars, page, seg, hold, cleanDir>>

NextRun ==
    \/ \E q \in RunQuarters, incremental \in BOOLEAN, input \in RunInputs :
          RunStart(q, incremental, input)
    \/ RunFilter
    \/ RunParse
    \/ RunEvaluate
    \/ RunEmit
    \/ RunRecord

SpecRun == InitRun /\ [][NextRun]_vars

\* the run ended by an exception that _emit_chunks raises before its file is
\* written: run_cleaning catches nothing, the index file stays as
\* evaluate_sections saved it
aborted_run(r) ==
    [r EXCEPT !.pc = "failed",
              !.aborted = [n |-> r.n, quarter |-> r.quarter, pages |-> r.pages,
                           results |-> r.results]]

\* lines 111-120 and 248-249 when the file cannot be written
RunAbort ==
    /\ run.pc = "evaluated"
    /\ run' = aborted_run(run)
    /\ UNCHANGED <<indexVars, page, seg, hold, registry, cleanDir>>

NextAbort ==
    \/ \E q \in RunQuarters, incremental \in BOOLEAN, input \in RunInputs :
          RunStart(q, incremental, input)
    \/ RunFilter
    \/ RunParse
    \/ RunEvaluate
    \/ RunEmit
    \/ RunAbort
    \/ RunRecord

\* the pipeline with runs that may fail between the index and the output
SpecAbort == InitRun /\ [][NextAbort]_vars

(* Properties of the pipeline, checked under SpecRun *)

\* the run has parsed its document
Parsed == run.has_input /\ run.pc \in {"parsed", "evaluated", "emitted", "done"}

\* the run has written the records of its document
RunEmitted == run.has_input /\ run.pc \in {"emitted", "done"}

\* C11: in an incremental run a section whose status is "reuse" contributes no
\* chunk record to the emitted file.
C11_ChunksGatedByStatus ==
    (RunEmitted /\ run.incremental) =>
        \A n \in 1..Len(entries) :
            entries[n].type = "chunk" => entries[n].change_type # "reuse"

\* C13: the pages the segmenter reads are the pages remove_english_pages kept
\* in this run; when it kept none, no page is segmented, hashed or chunked.
C13_SegmenterReadsKeptPages ==
    /\ Parsed =>
          /\ run.read_pages = [n \in 1..Len(run.kept_pages) |-> run.pages[run.kept_pages[n]]]
          /\ run.kept_pages = <<>> => run.sections = <<>>
    /\ (RunEmitted /\ run.kept_pages = <<>>) => entries = <<>>

\* C19: the quarter label under which a run stores the fund's sections is the
\* canonical YYYYQn form of the quarter it was given, so every label of the
\* index is canonical.
C19_CanonicalQuarterLabels ==
    /\ store.state = "ok" =>
          \A fund \in DOMAIN store.index :
              \A q \in DOMAIN store.index[fund] :
                  normalize_quarter(q) = [raised |-> FALSE, value |-> q]
    /\ (run.has_input /\ run.pc \in {"evaluated", "emitted", "done"}) =>
          normalize_quarter(run.quarter).value \in DOMAIN store.index[run.fund_code]

(* Properties of a run that fails before its output, checked under SpecAbort *)

\* the index file holds, under the fund and the quarter of the run r, the
\* current hash of every section r evaluated
IndexHolds(r) ==
    /\ store.state = "ok"
    /\ r.fund_code \in DOMAIN store.index
    /\ r.quarter \in DOMAIN store.index[r.fund_code]
    /\ \A i \in 1..Len(r.results) :
          /\ r.results[i].key \in DOMAIN store.index[r.fund_code][r.quarter]
          /\ store.index[r.fund_code][r.quarter][r.results[i].key].hash
                = r.results[i].current_hash

\* the run is the one after a failed run, on the same document and quarter
Retry ==
    /\ run.aborted.n > 0
    /\ run.n = run.aborted.n + 1
    /\ run.has_input
    /\ run.quarter = run.aborted.quarter
    /\ run.pages = run.aborted.pages

\* what holds in every state of a pipeline whose runs may fail
AbortState ==
    /\ (run.has_input /\ run.pc = "evaluated") => IndexHolds(run)
    /\ (run.pc = "failed" /\ run.aborted.n = run.n /\ run.n > 0) => IndexHolds(run)
    /\ (Retry /\ run.pc \in {"evaluated", "emitted", "done"}) =>
          \A i \in 1..Len(run.results) : run.results[i].status = "reuse"
    /\ (Retry /\ run.pc \in {"emitted", "done"}) =>
          \A n \in 1..Len(entries) : entries[n].type # "summary"

\* C22: the index entry of the document is persisted before its file is
\* written: between evaluate_sections and the output the index holds the new
\* hashes; a run that fails there writes no file and leaves the index as it
\* is; the next run of the same document for the same quarter reports every
\* section "reuse" and emits no summary record.
C22_IndexBeforeOutput ==
    /\ []AbortState
    /\ [][(run.pc = "evaluated" /\ run'.pc = "failed") =>
             (entries' = entries /\ store' = store)]_vars

\* a first run found a new section and failed before writing; the second run
\* of the same document wrote records, none of them a summary
C22_Witness ==
    /\ Retry
    /\ run.pc = "done"
    /\ run.aborted.n = 1
    /\ \E i \in 1..Len(run.aborted.results) : run.aborted.results[i].status = "new"
    /\ run.results # <<>>
    /\ entries # <<>>

=============================================================================
